---- MODULE Spec2Model ----
(***************************************************************************)
(* The exploration graph of SearchView (frontend/src/components/           *)
(* SearchView.tsx): the node/edge lists and their shadow refs, the         *)
(* registry of in-flight expansion requests, the initial search, manual    *)
(* branch addition and JSON import.                                        *)
(*                                                                         *)
(* A text is a sequence of characters (one-element strings); " " is the    *)
(* only white space.  A handler runs to its next await in one step: the    *)
(* component is single threaded and React applies the state updates a      *)
(* handler queues before the next event is handled.                        *)
(***************************************************************************)
EXTENDS Integers, Sequences, FiniteSets, TLC

VARIABLES
  query,                  \* useState('')        SearchView.tsx:255
  searchResult,           \* "null" or "set"     SearchView.tsx:256
  nodes,                  \* useState<Node[]>    SearchView.tsx:257
  edges,                  \* useState<Edge[]>    SearchView.tsx:258
  isLoading,              \* SearchView.tsx:259
  conversationHistory,    \* SearchView.tsx:260
  currentConcept,         \* SearchView.tsx:261
  customBranchQuestions,  \* SearchView.tsx:262
  showFollowUpModal,      \* SearchView.tsx:263
  selectedSourceNodeId,   \* SearchView.tsx:265
  activeRequestRef,       \* node id -> AbortController (a token) or NoToken
  edgesRef,               \* SearchView.tsx:291
  nodesRef,               \* SearchView.tsx:292
  requests,               \* handleNodeClick calls suspended at their await
  searchReq,              \* handleSearch calls suspended at their await
  aborted,                \* tokens whose controller was aborted
  lastExpanded,           \* history variable: id of the node expanded last
  imports,                \* history variable: files read so far
  clock,                  \* Date.now() / Math.random(): source of fresh stamps
  dagreGraph,             \* the module's dagre graph    SearchView.tsx:14
  lastLayout,             \* the nodes the last getLayoutedElements returned
  answer,                 \* completion text of the model   rabbithole.ts:114
  searchResponse,         \* what the search route sends    rabbithole.ts:156
  mounted,                \* the component is mounted       SearchView.tsx:456
  localStorage,           \* the value under HISTORY_KEY    history.ts:24
  files                   \* the files of HISTORY_DIR       rabbithole.ts:184

vars == <<query, searchResult, nodes, edges, isLoading, conversationHistory,
          currentConcept, customBranchQuestions, showFollowUpModal,
          selectedSourceNodeId, activeRequestRef, edgesRef,
          nodesRef, requests, searchReq, aborted, lastExpanded, imports,
          clock,
          dagreGraph, lastLayout, answer, searchResponse,
          mounted, localStorage, files>>

----------------------------------------------------------------------------
(* Bounds of the model *)

\* The length of a run in ticks of the clock: a tick is taken by every fresh
\* id or controller (Date.now(), new AbortController()) and by every file
\* the FileReader delivers.
MaxClock == 4

\* Files the user imports in one run.
MaxImports == 1

----------------------------------------------------------------------------
(* Texts *)

Empty == <<>>

Loading == <<"Loading...">>

\* What trim and \s take for white space
WhiteSpace == {" ", "\n"}

RECURSIVE TrimLeft(_)
TrimLeft(s) ==
  IF s # <<>> /\ Head(s) \in WhiteSpace THEN TrimLeft(Tail(s)) ELSE s

RECURSIVE TrimRight(_)
TrimRight(s) ==
  IF s # <<>> /\ s[Len(s)] \in WhiteSpace
  THEN TrimRight(SubSeq(s, 1, Len(s) - 1)) ELSE s

\* String.prototype.trim
Trim(s) == TrimRight(TrimLeft(s))

\* a || b on strings: the empty string is falsy
OrElse(a, b) == IF a # Empty THEN a ELSE b

Range(s) == {s[i] : i \in DOMAIN s}

Max(S) == CHOOSE m \in S : \A x \in S : x <= m

----------------------------------------------------------------------------
(* Ids.  An id is <<prefix, stamp, index>>: 'main' is <<"main", 0, 0>>,    *)
(* `question-${index}` of the initial search is <<"question-", 0, index>>, *)
(* the ids built from Date.now() and Math.random() carry a fresh stamp.    *)

NoId == <<"", 0, 0>>

MainId == <<"main", 0, 0>>

SearchChildId(index) == <<"question-", 0, index>>

ExpansionChildId(stamp, index) == <<"question-", stamp, index>>

CustomId(stamp) == <<"question-custom-", stamp, 0>>

\* node.id.startsWith('question-')
StartsWithQuestion(id) == id[1] \in {"question-", "question-custom-"}

EdgeId(x) == <<"edge-", x>>

NoToken == 0

----------------------------------------------------------------------------
(* Nodes and edges.  type is the React Flow node type ('mainNode' is kind  *)
(* main, 'default' is kind question); label, content, isExpanded and       *)
(* isCustom are the fields of node.data (an absent isCustom is FALSE).     *)
(* position is the layered position layout assigns: x the rank, y the      *)
(* place within the rank.                                                  *)

Origin == [x |-> 0, y |-> 0]

\* The loading root of handleSearch
LoadingNode(q) ==
  [id |-> MainId, type |-> "mainNode", label |-> q, content |-> Loading,
   isExpanded |-> TRUE, isCustom |-> FALSE, position |-> Origin]

\* An unexpanded question node as handleSearch, handleNodeClick and
\* handleAddCustomFollowUp build it
QuestionNode(id, question, custom) ==
  [id |-> id, type |-> "default", label |-> question, content |-> Empty,
   isExpanded |-> FALSE, isCustom |-> custom, position |-> Origin]

NewEdge(id, source, target) == [id |-> id, source |-> source, target |-> target]

\* An entry of an imported nodes or edges array that is null
NullEntry == [null |-> TRUE]

IsNull(e) == "null" \in DOMAIN e

Ids(ns) == {ns[i].id : i \in DOMAIN ns}

\* n.type === 'mainNode' && n.data.isExpanded
IsExpandedMain(n) == n.type = "mainNode" /\ n.isExpanded

----------------------------------------------------------------------------
(* getLayoutedElements.  dagre is given every node and edge afresh (the    *)
(* shared graph is emptied first) and ranks the nodes left to right; the   *)
(* rank of a node is the length of the longest chain of edges that ends    *)
(* at it, and within a rank the nodes keep the order they were given in.   *)

RECURSIVE RankOf(_, _, _)
RankOf(v, es, fuel) ==
  LET preds == {es[i].source : i \in {j \in DOMAIN es : es[j].target = v /\ es[j].source # v}}
  IN IF fuel = 0 \/ preds = {} THEN 0
     ELSE 1 + Max({RankOf(p, es, fuel - 1) : p \in preds})

\* node.id / edge.source of a null entry throws a TypeError
LayoutThrows(ns, es) ==
  \/ \E i \in DOMAIN ns : IsNull(ns[i])
  \/ \E i \in DOMAIN es : IsNull(es[i])

LayoutPosition(ns, es, i) ==
  LET r == RankOf(ns[i].id, es, Len(es))
  IN [x |-> r,
      y |-> Cardinality({j \in 1..(i - 1) : RankOf(ns[j].id, es, Len(es)) = r})]

\* getLayoutedElements that returns the nodes ordered by rank, last first
getLayoutedElements_Reordered(ns, es) ==
  [nodes |-> [i \in DOMAIN ns |->
                [ns[Len(ns) + 1 - i] EXCEPT
                   !.position = LayoutPosition(ns, es, Len(ns) + 1 - i)]],
   edges |-> es]

getLayoutedElements(ns, es) ==
  [nodes |-> [i \in DOMAIN ns |-> [ns[i] EXCEPT !.position = LayoutPosition(ns, es, i)]],
   edges |-> es]

----------------------------------------------------------------------------
(* The dagre graph the module creates once and every layout shares: its    *)
(* nodes in the order they were set and its edges as (source, target).     *)
(* The handlers above use getLayoutedElements as a function of its         *)
(* arguments; the definitions below run it on the shared graph.            *)

EmptyDagre == [nodes |-> <<>>, edges |-> {}]

\* graphlib removeNode: the node goes with every edge that touches it
removeNode(g, v) ==
  [nodes |-> SelectSeq(g.nodes, LAMBDA n : n # v),
   edges |-> {e \in g.edges : e[1] # v /\ e[2] # v}]

\* dagreGraph.nodes().forEach(node => dagreGraph.removeNode(node)) without
\* the removal: the graph is left as the last call filled it
dagreClear_Keep(g) == g

\* dagreGraph.nodes().forEach(node => dagreGraph.removeNode(node))
RECURSIVE dagreClear(_)
dagreClear(g) ==
  IF g.nodes = <<>> THEN g ELSE dagreClear(removeNode(g, g.nodes[1]))

\* graphlib setNode: a node that is there keeps its place
setNode(g, v) ==
  IF v \in Range(g.nodes) THEN g ELSE [g EXCEPT !.nodes = Append(@, v)]

\* graphlib setEdge: both ends become nodes of the graph
setEdge(g, v, w) ==
  [setNode(setNode(g, v), w) EXCEPT !.edges = @ \cup {<<v, w>>}]

RECURSIVE setNodes(_, _)
setNodes(g, ns) ==
  IF ns = <<>> THEN g ELSE setNodes(setNode(g, ns[1].id), Tail(ns))

RECURSIVE setEdges(_, _)
setEdges(g, es) ==
  IF es = <<>> THEN g ELSE setEdges(setEdge(g, es[1].source, es[1].target), Tail(es))

\* dagre.layout on the graph: ranks along its edges, order as set
RECURSIVE dagreRank(_, _, _)
dagreRank(v, g, fuel) ==
  LET preds == {e[1] : e \in {d \in g.edges : d[2] = v /\ d[1] # v}}
  IN IF fuel = 0 \/ preds = {} THEN 0
     ELSE 1 + Max({dagreRank(p, g, fuel - 1) : p \in preds})

\* dagreGraph.node(id) after dagre.layout
dagreNode(g, v) ==
  LET r == dagreRank(v, g, Cardinality(g.edges))
      at == CHOOSE k \in DOMAIN g.nodes : g.nodes[k] = v
  IN [x |-> r,
      y |-> Cardinality({j \in 1..(at - 1) :
                           dagreRank(g.nodes[j], g, Cardinality(g.edges)) = r})]

\* getLayoutedElements run on the shared graph g: the graph it leaves and
\* the nodes and edges it returns
getLayoutedElementsOn(g, ns, es) ==
  LET filled == setEdges(setNodes(dagreClear(g), ns), es)
  IN [graph |-> filled,
      nodes |-> [i \in DOMAIN ns |->
                   [ns[i] EXCEPT !.position = dagreNode(filled, ns[i].id)]],
      edges |-> es]

----------------------------------------------------------------------------
(* The search route of the backend: the follow-up questions are cut out of *)
(* the completion text.  A text is a sequence of pieces: single characters,*)
(* the enumerator "1.", the word "w" of fourteen letters and "H", the      *)
(* phrase "follow-up questions" in any case.                               *)

\* String.prototype.length of one piece
PieceLength(p) ==
  CASE p = "H" -> 19
    [] p = "w" -> 14
    [] p = "1." -> 2
    [] OTHER -> 1

\* String.prototype.length
RECURSIVE Length(_)
Length(s) == IF s = <<>> THEN 0 ELSE PieceLength(Head(s)) + Length(Tail(s))

\* How many pieces of t from position i on are in S, at most max: a greedy
\* quantifier of a regular expression
RECURSIVE Run(_, _, _, _)
Run(t, i, S, max) ==
  IF max > 0 /\ i <= Len(t) /\ t[i] \in S
  THEN 1 + Run(t, i + 1, S, max - 1) ELSE 0

\* /#{0,6}\s*\*{0,2}\s*follow[- ]up questions\s*\*{0,2}\s*:?/i tried at
\* position s of t: the position after the match, or 0 for no match
followUpSectionRegex(t, s) ==
  LET a == s + Run(t, s, {"#"}, 6)
      b == a + Run(t, a, WhiteSpace, Len(t))
      c == b + Run(t, b, {"*"}, 2)
      d == c + Run(t, c, WhiteSpace, Len(t))
  IN IF d <= Len(t) /\ t[d] = "H"
     THEN LET e == d + 1 + Run(t, d + 1, WhiteSpace, Len(t))
              f == e + Run(t, e, {"*"}, 2)
              g == f + Run(t, f, WhiteSpace, Len(t))
          IN g + Run(t, g, {":"}, 1)
     ELSE 0

\* response.split(followUpSectionRegex): the text from position from on,
\* with the search for the next match at position at
RECURSIVE split(_, _, _)
split(t, from, at) ==
  IF at > Len(t) THEN << SubSeq(t, from, Len(t)) >>
  ELSE IF followUpSectionRegex(t, at) # 0
  THEN << SubSeq(t, from, at - 1) >>
         \o split(t, followUpSectionRegex(t, at), followUpSectionRegex(t, at))
  ELSE split(t, from, at + 1)

\* split("\n")
RECURSIVE splitLines(_)
splitLines(t) ==
  IF \E k \in DOMAIN t : t[k] = "\n"
  THEN LET k == CHOOSE i \in DOMAIN t :
                  t[i] = "\n" /\ \A j \in 1..(i - 1) : t[j] # "\n"
       IN << SubSeq(t, 1, k - 1) >> \o splitLines(SubSeq(t, k + 1, Len(t)))
  ELSE << t >>

\* /^(\*{1,2})?\s*(\d+\.|-|\*)\s*(\*{1,2})?\s*/ with the first group taking
\* stars stars: the position after the match, or 0 for no match
markerEnd(line, stars) ==
  LET a == 1 + stars
      b == a + Run(line, a, WhiteSpace, Len(line))
  IN IF Run(line, 1, {"*"}, stars) = stars
        /\ b <= Len(line) /\ line[b] \in {"1.", "-", "*"}
     THEN LET c == b + 1 + Run(line, b + 1, WhiteSpace, Len(line))
              d == c + Run(line, c, {"*"}, 2)
          IN d + Run(line, d, WhiteSpace, Len(line))
     ELSE 0

\* The two replace calls and the trim of the map over the lines
stripMarkers(line) ==
  LET e == IF markerEnd(line, 2) # 0 THEN markerEnd(line, 2)
           ELSE IF markerEnd(line, 1) # 0 THEN markerEnd(line, 1)
           ELSE markerEnd(line, 0)
      rest == IF e = 0 THEN line ELSE SubSeq(line, e, Len(line))
  IN Trim(SelectSeq(rest, LAMBDA p : p # "*"))

\* The second filter with >= where the code has >
keepLine_AtLeast(line) ==
  "?" \in Range(line) \/ "\\uff1f" \in Range(line) \/ Length(line) >= 15

\* The second filter: line.includes("?") || line.includes("\uff1f") ||
\* line.length > 15
keepLine(line) ==
  "?" \in Range(line) \/ "\\uff1f" \in Range(line) \/ Length(line) > 15

\* slice(-3) where the code has slice(0, 3)
slice3_Last(s) == SubSeq(s, IF Len(s) > 3 THEN Len(s) - 2 ELSE 1, Len(s))

\* slice(0, 3)
slice3(s) == SubSeq(s, 1, IF Len(s) > 3 THEN 3 ELSE Len(s))

\* followUpSplit.length > 1 ? followUpSplit[1] : null, and null or '' is
\* falsy: the lines after trim, split and the first filter, markers stripped
candidateLines(t) ==
  LET followUpSplit == split(t, 1, 1)
  IN IF Len(followUpSplit) > 1 /\ followUpSplit[2] # Empty
     THEN LET lines == SelectSeq(splitLines(Trim(followUpSplit[2])),
                                 LAMBDA line : Trim(line) # Empty)
          IN [i \in DOMAIN lines |-> stripMarkers(lines[i])]
     ELSE <<>>

\* followUpQuestions with the section of the whole text when no heading is
\* found
followUpQuestions_WholeText(t) ==
  LET followUpSplit == split(t, 1, 1)
      section == IF Len(followUpSplit) > 1 THEN followUpSplit[2] ELSE t
      lines == SelectSeq(splitLines(Trim(section)), LAMBDA line : Trim(line) # Empty)
  IN slice3(SelectSeq([i \in DOMAIN lines |-> stripMarkers(lines[i])], keepLine))

followUpQuestions(t) == slice3(SelectSeq(candidateLines(t), keepLine))

\* response.split(followUpSectionRegex)[0].trim()
mainResponse(t) == Trim(split(t, 1, 1)[1])

\* Nothing sent yet
NotSent == [sent |-> FALSE, response |-> Empty, followUpQuestions |-> <<>>]

----------------------------------------------------------------------------
(* The state as one record, so that a handler is a function from the state *)
(* and its input to the state it leaves.  importToast is the toast the      *)
(* handler shows ("none", "ok" or "error"): it is on screen for three      *)
(* seconds and nothing reads it, so it is kept in the handler's result     *)
(* and not in the state.                                                   *)

Cur ==
  [query |-> query, searchResult |-> searchResult, nodes |-> nodes,
   edges |-> edges, isLoading |-> isLoading,
   conversationHistory |-> conversationHistory,
   currentConcept |-> currentConcept,
   customBranchQuestions |-> customBranchQuestions,
   showFollowUpModal |-> showFollowUpModal,
   selectedSourceNodeId |-> selectedSourceNodeId,
   importToast |-> "none", activeRequestRef |-> activeRequestRef,
   edgesRef |-> edgesRef, nodesRef |-> nodesRef, requests |-> requests,
   searchReq |-> searchReq, aborted |-> aborted,
   lastExpanded |-> lastExpanded, imports |-> imports, clock |-> clock]

Apply(st) ==
  /\ query' = st.query
  /\ searchResult' = st.searchResult
  /\ nodes' = st.nodes
  /\ edges' = st.edges
  /\ isLoading' = st.isLoading
  /\ conversationHistory' = st.conversationHistory
  /\ currentConcept' = st.currentConcept
  /\ customBranchQuestions' = st.customBranchQuestions
  /\ showFollowUpModal' = st.showFollowUpModal
  /\ selectedSourceNodeId' = st.selectedSourceNodeId
  /\ activeRequestRef' = st.activeRequestRef
  /\ edgesRef' = st.edgesRef
  /\ nodesRef' = st.nodesRef
  /\ requests' = st.requests
  /\ searchReq' = st.searchReq
  /\ aborted' = st.aborted
  /\ lastExpanded' = st.lastExpanded
  /\ imports' = st.imports
  /\ clock' = st.clock
  /\ UNCHANGED <<dagreGraph, lastLayout, answer, searchResponse,
                 mounted, localStorage, files>>

\* The component as it is mounted, and the dagre graph of the module
InitSession ==
  /\ query = Empty
  /\ searchResult = "null"
  /\ nodes = <<>>
  /\ edges = <<>>
  /\ isLoading = FALSE
  /\ conversationHistory = <<>>
  /\ currentConcept = Empty
  /\ customBranchQuestions = <<>>
  /\ showFollowUpModal = FALSE
  /\ selectedSourceNodeId = NoId
  /\ activeRequestRef = <<>>
  /\ edgesRef = <<>>
  /\ nodesRef = <<>>
  /\ requests = {}
  /\ searchReq = {}
  /\ aborted = {}
  /\ lastExpanded = NoId
  /\ imports = 0
  /\ clock = 0
  /\ dagreGraph = EmptyDagre
  /\ lastLayout = <<>>
  /\ mounted = TRUE
  /\ localStorage = [present |-> FALSE, value |-> <<>>]
  /\ files = <<>>

Init ==
  /\ InitSession
  /\ answer = Empty
  /\ searchResponse = NotSent

----------------------------------------------------------------------------
(* The query service (POST /rabbitholes/search): what it may answer.       *)

SearchResponses ==
  { [response |-> <<"a0">>, followUpQuestions |-> << <<"f1">> >>,
     contextualQuery |-> Empty] }

ExpansionResponses ==
  { [response |-> <<"a1">>, followUpQuestions |-> << <<"g1">> >>,
     contextualQuery |-> Empty],
    [response |-> <<"a2">>, followUpQuestions |-> <<>>,
     contextualQuery |-> <<"c2">>] }

\* What the user may type into the query box
QueryInputs == {<<"q">>}

\* What the user may type into the custom branch box of the start page
PoolInputs == {<<"p1">>}

----------------------------------------------------------------------------
(* The start page: query box, custom branch pool, handleSearch.            *)

\* onChange of the query box, and the deck cards
SetQuery(q) ==
  /\ searchResult = "null"
  /\ Apply([Cur EXCEPT !.query = q])

\* CustomBranchInput.handleAdd and addCustomBranchQuestion
addCustomBranchQuestion(input) ==
  LET trimmed == Trim(input)
  IN IF trimmed # Empty /\ trimmed \notin Range(customBranchQuestions)
     THEN [Cur EXCEPT !.customBranchQuestions = Append(@, trimmed)]
     ELSE Cur

AddPool(input) ==
  /\ searchResult = "null"
  /\ addCustomBranchQuestion(input) # Cur
  /\ Apply(addCustomBranchQuestion(input))

removeCustomBranchQuestion(index) ==
  [Cur EXCEPT !.customBranchQuestions =
     SubSeq(@, 1, index - 1) \o SubSeq(@, index + 1, Len(@))]

RemovePool(index) ==
  /\ searchResult = "null"
  /\ index \in DOMAIN customBranchQuestions
  /\ Apply(removeCustomBranchQuestion(index))

\* handleSearch up to its await: the loading root replaces the graph state
\* (the refs are not written), and the call keeps the query and the pool of
\* the render it was created in.
handleSearch ==
  IF Trim(query) = Empty THEN Cur
  ELSE [Cur EXCEPT !.isLoading = TRUE,
                   !.nodes = <<LoadingNode(query)>>,
                   !.edges = <<>>,
                   !.searchReq = @ \cup {[query |-> query,
                                          pool |-> customBranchQuestions]}]

\* The query box and its button are shown while there is no searchResult, and
\* are disabled or hidden while isLoading.
Search ==
  /\ searchResult = "null"
  /\ ~isLoading
  /\ handleSearch # Cur
  /\ Apply(handleSearch)

\* handleSearchResolved with every question of the pool appended, those the
\* service gave as well
handleSearchResolved_NoFilter(call, r) ==
  LET fq == r.followUpQuestions
      allFollowUpQuestions == fq \o call.pool
      mainNode == [LoadingNode(call.query) EXCEPT
                     !.label = OrElse(r.contextualQuery, call.query),
                     !.content = r.response]
      followUpNodes ==
        [i \in DOMAIN allFollowUpQuestions |->
           QuestionNode(SearchChildId(i - 1), allFollowUpQuestions[i],
                        i - 1 >= Len(fq))]
      newEdges ==
        [i \in DOMAIN followUpNodes |->
           NewEdge(EdgeId(<<"", 0, i - 1>>), MainId, SearchChildId(i - 1))]
      layouted == getLayoutedElements(<<mainNode>> \o followUpNodes, newEdges)
  IN [Cur EXCEPT !.searchResult = "set",
                 !.nodesRef = layouted.nodes,
                 !.edgesRef = layouted.edges,
                 !.nodes = layouted.nodes,
                 !.edges = layouted.edges,
                 !.isLoading = FALSE,
                 !.lastExpanded = MainId,
                 !.searchReq = @ \ {call}]

\* handleSearch after its await resolved with response r
handleSearchResolved(call, r) ==
  LET fq == r.followUpQuestions
      allFollowUpQuestions ==
        fq \o SelectSeq(call.pool, LAMBDA q : q \notin Range(fq))
      mainNode == [LoadingNode(call.query) EXCEPT
                     !.label = OrElse(r.contextualQuery, call.query),
                     !.content = r.response]
      followUpNodes ==
        [i \in DOMAIN allFollowUpQuestions |->
           QuestionNode(SearchChildId(i - 1), allFollowUpQuestions[i],
                        i - 1 >= Len(fq))]
      newEdges ==
        [i \in DOMAIN followUpNodes |->
           NewEdge(EdgeId(<<"", 0, i - 1>>), MainId, SearchChildId(i - 1))]
      layouted == getLayoutedElements(<<mainNode>> \o followUpNodes, newEdges)
  IN [Cur EXCEPT !.searchResult = "set",
                 !.nodesRef = layouted.nodes,
                 !.edgesRef = layouted.edges,
                 !.nodes = layouted.nodes,
                 !.edges = layouted.edges,
                 !.isLoading = FALSE,
                 !.lastExpanded = MainId,
                 !.searchReq = @ \ {call}]

SearchResolve ==
  \E call \in searchReq, r \in SearchResponses :
    Apply(handleSearchResolved(call, r))

\* handleSearch after its await rejected: the error is logged
handleSearchRejected(call) ==
  [Cur EXCEPT !.isLoading = FALSE, !.searchReq = @ \ {call}]

SearchReject ==
  \E call \in searchReq : Apply(handleSearchRejected(call))

----------------------------------------------------------------------------
(* handleNodeClick: the expansion of a question node.                      *)

\* activeRequestRef.current[id]: an id never registered reads undefined,
\* which like null is no controller
ActiveToken(id) ==
  IF id \in DOMAIN activeRequestRef THEN activeRequestRef[id] ELSE NoToken

\* The ids that have a controller registered
Registered == {id \in DOMAIN activeRequestRef : activeRequestRef[id] # NoToken}

\* Object.values(activeRequestRef.current).some(controller => controller !== null)
hasActiveRequests == \E id \in DOMAIN activeRequestRef : activeRequestRef[id] # NoToken

SetToken(id, token) ==
  [x \in DOMAIN activeRequestRef \cup {id} |->
     IF x = id THEN token ELSE activeRequestRef[x]]

\* ClickAccepted without the check for active requests
ClickAccepted_NoSingleFlight(node) ==
  /\ StartsWithQuestion(node.id)
  /\ ~node.isExpanded

\* The early returns of handleNodeClick
ClickAccepted(node) ==
  /\ StartsWithQuestion(node.id)
  /\ ~node.isExpanded
  /\ ~hasActiveRequests

\* nodesRef.current.find(n => n.type === 'mainNode' && n.data.isExpanded)
lastMainNode == SelectSeq(nodesRef, IsExpandedMain)

\* The node while its request is in flight
PendingNode(n) ==
  [n EXCEPT !.type = "mainNode", !.content = Loading, !.isExpanded = TRUE]

\* handleNodeClick up to its await.  The controller is the stamp clock + 1;
\* the call keeps the clicked node object and its controller.
handleNodeClick(node) ==
  IF ~ClickAccepted(node) THEN Cur
  ELSE
    LET abortController == clock + 1
        updated == [i \in DOMAIN nodes |->
                      IF nodes[i].id = node.id THEN PendingNode(nodes[i])
                      ELSE nodes[i]]
    IN [Cur EXCEPT
          !.clock = abortController,
          !.aborted = IF ActiveToken(node.id) # NoToken
                      THEN @ \cup {ActiveToken(node.id)} ELSE @,
          !.activeRequestRef = SetToken(node.id, abortController),
          !.isLoading = TRUE,
          !.conversationHistory =
             IF lastMainNode # <<>>
             THEN Append(@, [user |-> lastMainNode[1].label,
                             assistant |-> lastMainNode[1].content])
             ELSE @,
          !.nodes = updated,
          !.nodesRef = updated,
          !.requests = @ \cup {[node |-> node, token |-> abortController]}]

\* Finally with the controller left in the registry
Finally_KeepController(st, call) ==
  IF ActiveToken(call.node.id) = call.token
  THEN [st EXCEPT !.isLoading = FALSE]
  ELSE st

\* The finally block of handleNodeClick
Finally(st, call) ==
  IF ActiveToken(call.node.id) = call.token
  THEN [st EXCEPT !.activeRequestRef = SetToken(call.node.id, NoToken),
                  !.isLoading = FALSE]
  ELSE st

\* ExpandedNode with the question text as label whatever the response has
ExpandedNode_QuestionText(n, questionText, r) ==
  [n EXCEPT !.type = "mainNode",
            !.label = questionText,
            !.content = r.response,
            !.isExpanded = TRUE,
            !.isCustom = FALSE]

\* The node with the response applied
ExpandedNode(n, questionText, r) ==
  [n EXCEPT !.type = "mainNode",
            !.label = OrElse(r.contextualQuery, questionText),
            !.content = r.response,
            !.isExpanded = TRUE,
            !.isCustom = FALSE]

\* ApplyResponse with the edge list left as it was
ApplyResponse_NoEdges(st, call, r) ==
  LET id == call.node.id
      stamp == clock + 1
      transformedNodes ==
        [i \in DOMAIN nodes |->
           IF nodes[i].id = id
           THEN ExpandedNode(nodes[i], call.node.label, r)
           ELSE nodes[i]]
      newFollowUpNodes ==
        [i \in DOMAIN r.followUpQuestions |->
           QuestionNode(ExpansionChildId(stamp, i - 1),
                        r.followUpQuestions[i], FALSE)]
      finalLayoutedNodes ==
        getLayoutedElements(transformedNodes \o newFollowUpNodes, edgesRef).nodes
  IN [st EXCEPT !.clock = stamp,
                !.nodesRef = finalLayoutedNodes,
                !.nodes = finalLayoutedNodes,
                !.lastExpanded = IF id \in Ids(nodes) THEN id ELSE @]

\* The setNodes updater of the success path: every write it makes
ApplyResponse(st, call, r) ==
  LET id == call.node.id
      stamp == clock + 1
      transformedNodes ==
        [i \in DOMAIN nodes |->
           IF nodes[i].id = id
           THEN ExpandedNode(nodes[i], call.node.label, r)
           ELSE nodes[i]]
      newFollowUpNodes ==
        [i \in DOMAIN r.followUpQuestions |->
           QuestionNode(ExpansionChildId(stamp, i - 1),
                        r.followUpQuestions[i], FALSE)]
      newEdges ==
        [i \in DOMAIN newFollowUpNodes |->
           NewEdge(EdgeId(newFollowUpNodes[i].id), id, newFollowUpNodes[i].id)]
      mergedEdges == edgesRef \o newEdges
      finalLayoutedNodes ==
        getLayoutedElements(transformedNodes \o newFollowUpNodes, mergedEdges).nodes
  IN [st EXCEPT !.clock = stamp,
                !.edgesRef = mergedEdges,
                !.edges = mergedEdges,
                !.nodesRef = finalLayoutedNodes,
                !.nodes = finalLayoutedNodes,
                !.lastExpanded = IF id \in Ids(nodes) THEN id ELSE @]

\* handleNodeClickResolved without the comparison of the controllers
handleNodeClickResolved_NoTokenCheck(call, r) ==
  Finally(ApplyResponse([Cur EXCEPT !.requests = @ \ {call}], call, r), call)

\* handleNodeClick after its await resolved with response r
handleNodeClickResolved(call, r) ==
  LET left == [Cur EXCEPT !.requests = @ \ {call}]
  IN Finally(IF ActiveToken(call.node.id) = call.token
             THEN ApplyResponse(left, call, r)
             ELSE left,
             call)

\* RevertNode spreading the current node n where the code spreads node
RevertNode_CurrentNode(st, call) ==
  LET updated ==
        [i \in DOMAIN nodes |->
           IF nodes[i].id = call.node.id
           THEN [nodes[i] EXCEPT !.isExpanded = FALSE]
           ELSE nodes[i]]
  IN [st EXCEPT !.nodes = updated, !.nodesRef = updated]

\* RevertNode with the comparison of the ids inverted
RevertNode_OtherNodes(st, call) ==
  LET updated ==
        [i \in DOMAIN nodes |->
           IF nodes[i].id # call.node.id
           THEN [nodes[i] EXCEPT !.isExpanded = FALSE]
           ELSE nodes[i]]
  IN [st EXCEPT !.nodes = updated, !.nodesRef = updated]

\* The setNodes updater of the catch block: the clicked node object is put
\* back in the place of the node that has its id
RevertNode(st, call) ==
  LET updated ==
        [i \in DOMAIN nodes |->
           IF nodes[i].id = call.node.id
           THEN [call.node EXCEPT !.isExpanded = FALSE]
           ELSE nodes[i]]
  IN [st EXCEPT !.nodes = updated, !.nodesRef = updated]

\* The condition of the catch block: error instanceof Error &&
\* error.name !== 'AbortError' && the controller is the registered one.
\* When it holds the error is reported (console.error) and the node is
\* reverted.
IsExpansionFailure(call, name) ==
  /\ name \notin {"NotAnError", "AbortError"}
  /\ ActiveToken(call.node.id) = call.token

\* handleNodeClick after its await rejected with an error of that name
handleNodeClickRejected(call, name) ==
  LET left == [Cur EXCEPT !.requests = @ \ {call}]
  IN Finally(IF IsExpansionFailure(call, name)
             THEN RevertNode(left, call)
             ELSE left,
             call)

\* What the request rejects with once its signal is aborted.  The request
\* is made by axios (api.post(..., { signal })), and what is thrown is the
\* client's choice: a cancellation object that is no Error, an error named
\* AbortError as fetch throws, or the CanceledError of axios.
AbortRejections == {"NotAnError", "AbortError", "CanceledError"}

\* The errors the request of a call may reject with: a failure of the
\* service at any time, a cancellation once its controller was aborted
ErrorNames(call) ==
  {"Error"} \cup (IF call.token \in aborted THEN AbortRejections ELSE {})

\* The stamps the calls in flight may still take
Reserved == Cardinality(requests)

\* A click on a node of the flow view (the modal overlay covers the flow)
NodeClick ==
  \E i \in DOMAIN nodes :
    /\ searchResult = "set"
    /\ ~showFollowUpModal
    /\ clock + Reserved + 2 <= MaxClock
    /\ handleNodeClick(nodes[i]) # Cur
    /\ Apply(handleNodeClick(nodes[i]))

ExpansionResolve ==
  \E call \in requests, r \in ExpansionResponses :
    Apply(handleNodeClickResolved(call, r))

ExpansionReject ==
  \E call \in requests :
    \E name \in ErrorNames(call) : Apply(handleNodeClickRejected(call, name))

----------------------------------------------------------------------------
(* The follow-up modal and handleAddCustomFollowUp.                        *)

\* What the user may type into the follow-up box
FollowUpInputs == {Empty, <<" ">>, <<" ", "u1">>}

\* onAskFollowUp of a rendered MainNode
OpenModal ==
  \E i \in DOMAIN nodes :
    /\ searchResult = "set"
    /\ ~showFollowUpModal
    /\ nodes[i].type = "mainNode"
    /\ Apply([Cur EXCEPT !.selectedSourceNodeId = nodes[i].id,
                         !.showFollowUpModal = TRUE])

\* The branch-from picker, shown when more than one expanded main node exists
PickSource ==
  \E i \in DOMAIN lastMainNode :
    /\ showFollowUpModal
    /\ Len(lastMainNode) > 1
    /\ lastMainNode[i].id # selectedSourceNodeId
    /\ Apply([Cur EXCEPT !.selectedSourceNodeId = lastMainNode[i].id])

\* Cancel, Escape, or a click on the overlay
CloseModal ==
  /\ showFollowUpModal
  /\ Apply([Cur EXCEPT !.showFollowUpModal = FALSE])

\* selectedSourceNodeId || (last expanded main node ?? first node ?? 'main')
SourceId ==
  IF selectedSourceNodeId # NoId THEN selectedSourceNodeId
  ELSE IF lastMainNode # <<>> THEN lastMainNode[Len(lastMainNode)].id
  ELSE IF nodesRef # <<>> THEN nodesRef[1].id
  ELSE MainId

\* handleAddCustomFollowUp without the return on a blank question
handleAddCustomFollowUp_NoBlankCheck(input) ==
  LET question == Trim(input)
      uniqueId == CustomId(clock + 1)
      newNode == QuestionNode(uniqueId, question, TRUE)
      newEdge == NewEdge(EdgeId(uniqueId), SourceId, uniqueId)
      mergedEdges == Append(edgesRef, newEdge)
      layoutedNodes == getLayoutedElements(Append(nodesRef, newNode), mergedEdges).nodes
  IN [Cur EXCEPT !.clock = clock + 1,
                 !.edgesRef = mergedEdges,
                 !.nodesRef = layoutedNodes,
                 !.edges = mergedEdges,
                 !.nodes = layoutedNodes,
                 !.showFollowUpModal = FALSE]

\* handleAddCustomFollowUp writing the state only, the references left as
\* they were
handleAddCustomFollowUp_StateOnly(input) ==
  LET question == Trim(input)
      uniqueId == CustomId(clock + 1)
      newNode == QuestionNode(uniqueId, question, TRUE)
      newEdge == NewEdge(EdgeId(uniqueId), SourceId, uniqueId)
      mergedEdges == Append(edgesRef, newEdge)
      layoutedNodes == getLayoutedElements(Append(nodesRef, newNode), mergedEdges).nodes
  IN IF question = Empty THEN Cur
     ELSE [Cur EXCEPT !.clock = clock + 1,
                      !.edges = mergedEdges,
                      !.nodes = layoutedNodes,
                      !.showFollowUpModal = FALSE]

\* handleAddCustomFollowUp with followUpInput = input
handleAddCustomFollowUp(input) ==
  LET question == Trim(input)
      uniqueId == CustomId(clock + 1)
      newNode == QuestionNode(uniqueId, question, TRUE)
      newEdge == NewEdge(EdgeId(uniqueId), SourceId, uniqueId)
      mergedEdges == Append(edgesRef, newEdge)
      layoutedNodes == getLayoutedElements(Append(nodesRef, newNode), mergedEdges).nodes
  IN IF question = Empty THEN Cur
     ELSE [Cur EXCEPT !.clock = clock + 1,
                      !.edgesRef = mergedEdges,
                      !.nodesRef = layoutedNodes,
                      !.edges = mergedEdges,
                      !.nodes = layoutedNodes,
                      !.showFollowUpModal = FALSE]

\* Enter in the follow-up box, or the Add Branch button
AddCustomFollowUp ==
  \E input \in FollowUpInputs :
    /\ showFollowUpModal
    /\ clock + Reserved + 1 <= MaxClock
    /\ handleAddCustomFollowUp(input) # Cur
    /\ Apply(handleAddCustomFollowUp(input))

----------------------------------------------------------------------------
(* handleImportJSON: reader.onload on the text of the chosen file.         *)

Absent == [present |-> FALSE, value |-> Empty]

Given(v) == [present |-> TRUE, value |-> v]

\* A parsed file: every field the handler reads, present or not
Payload(type, q, concept, history, ns, es, branch) ==
  [parses |-> TRUE, type |-> type, query |-> q, currentConcept |-> concept,
   conversationHistory |-> history, nodes |-> ns, edges |-> es,
   branchQuestions |-> branch]

\* A file JSON.parse throws on
Unparsable == [Payload("", Absent, Absent, Absent, Absent, Absent, Absent)
                 EXCEPT !.parses = FALSE]

ImportedMain ==
  [id |-> MainId, type |-> "mainNode", label |-> <<"q">>, content |-> <<"ax">>,
   isExpanded |-> TRUE, isCustom |-> FALSE, position |-> Origin]

ImportedQuestion == QuestionNode(SearchChildId(0), <<"fx">>, FALSE)

\* An exported session: a root and one open question
TreePayload ==
  Payload("", Given(<<"q">>), Given(<<"cx">>),
          Given(<< [user |-> <<"q">>, assistant |-> <<"ax">>] >>),
          Given(<<ImportedMain, ImportedQuestion>>),
          Given(<< NewEdge(EdgeId(<<"", 0, 0>>), MainId, SearchChildId(0)) >>),
          Absent)

\* The same nodes with no edge between them: two roots
ForestPayload ==
  Payload("", Absent, Absent, Absent,
          Given(<<ImportedMain, ImportedQuestion>>), Given(<<>>), Absent)

\* A graph that is one open question, the root
QuestionRootPayload ==
  Payload("", Absent, Absent, Absent,
          Given(<<ImportedQuestion>>), Given(<<>>), Absent)

\* {query: "q"}: neither nodes nor edges
NoGraphPayload ==
  Payload("", Given(<<"q">>), Absent, Absent, Absent, Absent, Absent)

\* A nodes array that holds null, with session fields beside it
NullNodePayload ==
  Payload("", Given(<<"q">>), Absent, Absent,
          Given(<<NullEntry>>), Given(<<>>), Absent)

\* {type: "branch-only", branchQuestions: [...]}
BranchOnlyPayload ==
  Payload("branch-only", Absent, Absent, Absent, Absent, Absent,
          Given(<< <<"p1">> >>))

Payloads ==
  {Unparsable, TreePayload, ForestPayload, QuestionRootPayload,
   NoGraphPayload, NullNodePayload, BranchOnlyPayload}

\* if (data.query): an absent field and the empty string are falsy
TruthyText(f) == f.present /\ f.value # Empty

\* if (data.conversationHistory): an array, even an empty one, is truthy
TruthyArray(f) == f.present

\* The session fields handleImportJSON sets before it lays the graph out
ImportSessionFields(st, data) ==
  [st EXCEPT
     !.query = IF TruthyText(data.query) THEN data.query.value ELSE @,
     !.currentConcept =
        IF TruthyText(data.currentConcept) THEN data.currentConcept.value ELSE @,
     !.conversationHistory =
        IF TruthyArray(data.conversationHistory)
        THEN data.conversationHistory.value ELSE @]

\* The graph handleImportJSON makes the active one
ImportGraph(st, data) ==
  LET layouted == getLayoutedElements(data.nodes.value, data.edges.value)
  IN [st EXCEPT !.nodesRef = layouted.nodes,
                !.edgesRef = layouted.edges,
                !.nodes = layouted.nodes,
                !.edges = layouted.edges,
                !.searchResult = "set",
                !.lastExpanded = NoId,
                !.importToast = "ok"]

\* handleImportJSON with the test of nodes and edges ahead of the branch-only
\* test, and every file that has a graph taken as a full graph
handleImportJSON_GraphFirst(data) ==
  IF ~data.parses THEN [Cur EXCEPT !.importToast = "error"]
  ELSE IF data.nodes.present /\ data.edges.present
  THEN IF LayoutThrows(data.nodes.value, data.edges.value)
       THEN [ImportSessionFields(Cur, data) EXCEPT !.importToast = "error"]
       ELSE ImportGraph(ImportSessionFields(Cur, data), data)
  ELSE IF data.type = "branch-only" /\ data.branchQuestions.present
  THEN [Cur EXCEPT !.customBranchQuestions = data.branchQuestions.value,
                   !.importToast = "ok"]
  ELSE [Cur EXCEPT !.importToast = "error"]

handleImportJSON(data) ==
  IF ~data.parses THEN [Cur EXCEPT !.importToast = "error"]
  ELSE IF data.type = "branch-only" /\ data.branchQuestions.present
  THEN [Cur EXCEPT !.customBranchQuestions = data.branchQuestions.value,
                   !.importToast = "ok"]
  ELSE IF ~data.nodes.present \/ ~data.edges.present
  THEN [Cur EXCEPT !.importToast = "error"]
  ELSE IF LayoutThrows(data.nodes.value, data.edges.value)
  THEN [ImportSessionFields(Cur, data) EXCEPT !.importToast = "error"]
  ELSE ImportGraph(ImportSessionFields(Cur, data), data)

Import ==
  \E data \in Payloads :
    /\ imports < MaxImports
    /\ clock + Reserved + 1 <= MaxClock
    /\ Apply([handleImportJSON(data) EXCEPT !.imports = imports + 1,
                                            !.clock = clock + 1])

----------------------------------------------------------------------------
(* handleExportJSON: the session written to a file, and the file read back. *)

\* The payload object of handleExportJSON: the state of the render and the
\* graph of the references
handleExportJSON ==
  [version |-> "1.0", query |-> query, currentConcept |-> currentConcept,
   conversationHistory |-> conversationHistory,
   nodes |-> nodesRef, edges |-> edgesRef]

\* JSON.stringify of an object: its properties in order, each a key with
\* its value
JSONstringify(obj) ==
  << [key |-> "version", value |-> obj.version],
     [key |-> "query", value |-> obj.query],
     [key |-> "currentConcept", value |-> obj.currentConcept],
     [key |-> "conversationHistory", value |-> obj.conversationHistory],
     [key |-> "nodes", value |-> obj.nodes],
     [key |-> "edges", value |-> obj.edges] >>

\* JSON.parse of such a text, read as handleImportJSON reads it: a property
\* the text does not hold is undefined
JSONparse(text) ==
  LET Has(k) == \E i \in DOMAIN text : text[i].key = k
      Get(k) == text[CHOOSE i \in DOMAIN text : text[i].key = k].value
      Field(k) == IF Has(k) THEN Given(Get(k)) ELSE Absent
  IN Payload(IF Has("type") THEN Get("type") ELSE "",
             Field("query"), Field("currentConcept"),
             Field("conversationHistory"), Field("nodes"), Field("edges"),
             Field("branchQuestions"))

----------------------------------------------------------------------------

Next ==
  \/ \E q \in QueryInputs : SetQuery(q)
  \/ \E input \in PoolInputs : AddPool(input)
  \/ \E index \in DOMAIN customBranchQuestions : RemovePool(index)
  \/ Search
  \/ SearchResolve
  \/ SearchReject
  \/ NodeClick
  \/ ExpansionResolve
  \/ ExpansionReject
  \/ OpenModal
  \/ PickSource
  \/ CloseModal
  \/ AddCustomFollowUp
  \/ Import

Spec == Init /\ [][Next]_vars

----------------------------------------------------------------------------
(* Node deletion.  QuestionNode declares the onDeleteNode callback; the     *)
(* handler behind it is modelled from the design: the subtree of the node  *)
(* is removed with every edge that touches it, and the expansion of a      *)
(* removed node that is in flight is cancelled (its stored token is        *)
(* dropped and its controller aborted).                                    *)

RECURSIVE Reach(_, _, _)
Reach(S, es, fuel) ==
  LET more == S \cup {es[i].target : i \in {j \in DOMAIN es : es[j].source \in S}}
  IN IF fuel = 0 \/ more = S THEN S ELSE Reach(more, es, fuel - 1)

\* The node and everything reachable from it along outgoing edges
Subtree(id, es) == Reach({id}, es, Len(es))

\* removeSubtree that takes the node alone, with the edges that touch it
removeSubtree_NodeOnly(id) ==
  LET keptNodes == SelectSeq(nodesRef, LAMBDA n : n.id # id)
      keptEdges == SelectSeq(edgesRef, LAMBDA e : e.source # id /\ e.target # id)
  IN [Cur EXCEPT !.nodes = keptNodes, !.nodesRef = keptNodes,
                 !.edges = keptEdges, !.edgesRef = keptEdges,
                 !.aborted = @ \cup ({ActiveToken(id)} \ {NoToken}),
                 !.activeRequestRef =
                    [x \in DOMAIN @ |-> IF x = id THEN NoToken ELSE @[x]]]

removeSubtree(id) ==
  LET removed == Subtree(id, edgesRef)
      keptNodes == SelectSeq(nodesRef, LAMBDA n : n.id \notin removed)
      keptEdges == SelectSeq(edgesRef,
                             LAMBDA e : e.source \notin removed /\ e.target \notin removed)
      cancelled == {activeRequestRef[x] :
                      x \in {y \in DOMAIN activeRequestRef \cap removed :
                               activeRequestRef[y] # NoToken}}
  IN [Cur EXCEPT !.nodes = keptNodes, !.nodesRef = keptNodes,
                 !.edges = keptEdges, !.edgesRef = keptEdges,
                 !.aborted = @ \cup cancelled,
                 !.activeRequestRef =
                    [x \in DOMAIN @ |-> IF x \in removed THEN NoToken ELSE @[x]]]

DeleteNode ==
  \E i \in DOMAIN nodes :
    /\ searchResult = "set"
    /\ ~showFollowUpModal
    /\ nodes = nodesRef
    /\ Apply(removeSubtree(nodes[i].id))

NextD == Next \/ DeleteNode

\* The component with node deletion
SpecD == Init /\ [][NextD]_vars

----------------------------------------------------------------------------
(* Import over a session: the start page, the search, the expansions and   *)
(* files of every shape the handler tells apart.                           *)

\* A branch-only file that carries a whole session beside its questions
BranchOnlyGraphPayload ==
  Payload("branch-only", Given(<<"q2">>), Given(<<"cx">>), Given(<<>>),
          Given(<<ImportedMain>>), Given(<<>>), Given(<< <<"p2">> >>))

\* type "branch-only" without branchQuestions, and a graph
BranchOnlyNoArrayPayload ==
  Payload("branch-only", Absent, Absent, Absent,
          Given(<<ImportedMain>>), Given(<<>>), Absent)

\* A full graph whose query and currentConcept are '' and whose history is []
EmptyFieldsPayload ==
  Payload("", Given(Empty), Given(Empty), Given(<<>>),
          Given(<<ImportedMain>>), Given(<<>>), Absent)

\* A file edited by hand: the open question twice under one id, and its
\* edge twice under one id
DuplicateIdPayload ==
  Payload("", Absent, Absent, Absent,
          Given(<<ImportedMain, ImportedQuestion,
                  QuestionNode(SearchChildId(0), <<"fy">>, FALSE)>>),
          Given(<< NewEdge(EdgeId(<<"", 0, 0>>), MainId, SearchChildId(0)),
                   NewEdge(EdgeId(<<"", 0, 0>>), MainId, SearchChildId(0)) >>),
          Absent)

ImportFiles ==
  Payloads \cup {BranchOnlyGraphPayload, BranchOnlyNoArrayPayload,
                 EmptyFieldsPayload, DuplicateIdPayload}

ImportFile ==
  \E data \in ImportFiles :
    /\ imports < MaxImports
    /\ clock + Reserved + 1 <= MaxClock
    /\ Apply([handleImportJSON(data) EXCEPT !.imports = imports + 1,
                                            !.clock = clock + 1])

NextI ==
  \/ \E q \in QueryInputs : SetQuery(q)
  \/ \E input \in PoolInputs : AddPool(input)
  \/ \E index \in DOMAIN customBranchQuestions : RemovePool(index)
  \/ Search
  \/ SearchResolve
  \/ SearchReject
  \/ NodeClick
  \/ ExpansionResolve
  \/ ExpansionReject
  \/ ImportFile

SpecI == Init /\ [][NextI]_vars

----------------------------------------------------------------------------
(* The start page alone: a pool of several questions and a query service   *)
(* that answers with none, one or two follow-up questions, one of which    *)
(* the pool may hold as well.                                              *)

\* What the user may type into the custom branch box
StartPagePool == {<<"p1">>, <<" ", "p2">>, <<"f1">>}

\* What the query service may answer to the initial search
InitialSearchResponses ==
  { [response |-> <<"a0">>, followUpQuestions |-> <<>>,
     contextualQuery |-> Empty],
    [response |-> <<"a0">>, followUpQuestions |-> << <<"f1">> >>,
     contextualQuery |-> <<"c0">>],
    [response |-> <<"a3">>, followUpQuestions |-> << <<"f2">>, <<"f1">> >>,
     contextualQuery |-> Empty] }

AddPoolQuestion ==
  \E input \in StartPagePool :
    /\ searchResult = "null"
    /\ addCustomBranchQuestion(input) # Cur
    /\ Apply(addCustomBranchQuestion(input))

InitialSearchResolve ==
  \E call \in searchReq, r \in InitialSearchResponses :
    Apply(handleSearchResolved(call, r))

NextS ==
  \/ \E q \in QueryInputs : SetQuery(q)
  \/ AddPoolQuestion
  \/ \E index \in DOMAIN customBranchQuestions : RemovePool(index)
  \/ Search
  \/ InitialSearchResolve
  \/ SearchReject

SpecS == Init /\ [][NextS]_vars

----------------------------------------------------------------------------
(* The component unmounts while requests are in flight.                    *)

\* The cleanup of the effect: every registered controller is aborted, the
\* registry keeps them
Unmount ==
  /\ mounted
  /\ mounted' = FALSE
  /\ aborted' = aborted \cup {activeRequestRef[id] : id \in Registered}
  /\ UNCHANGED <<query, searchResult, nodes, edges, isLoading,
                 conversationHistory, currentConcept, customBranchQuestions,
                 showFollowUpModal, selectedSourceNodeId, activeRequestRef,
                 edgesRef, nodesRef, requests, searchReq, lastExpanded,
                 imports, clock, dagreGraph, lastLayout, answer,
                 searchResponse, localStorage, files>>

\* A search and its expansions, until the component unmounts; the calls in
\* flight end after that
NextU ==
  \/ mounted /\ \E q \in QueryInputs : SetQuery(q)
  \/ mounted /\ \E input \in PoolInputs : AddPool(input)
  \/ mounted /\ Search
  \/ SearchResolve
  \/ SearchReject
  \/ mounted /\ NodeClick
  \/ ExpansionResolve
  \/ ExpansionReject
  \/ Unmount

SpecU == Init /\ [][NextU]_vars

\* The same with a query service that ends every request: the promise of a
\* call in flight settles, and the handler continues
SpecUFair == SpecU /\ WF_vars(ExpansionResolve \/ ExpansionReject)

\* The graph of a search under every operation that edits it in place:
\* expansion, custom follow-up and deletion
NextG ==
  \/ \E q \in QueryInputs : SetQuery(q)
  \/ \E input \in PoolInputs : AddPool(input)
  \/ \E index \in DOMAIN customBranchQuestions : RemovePool(index)
  \/ Search
  \/ SearchResolve
  \/ SearchReject
  \/ NodeClick
  \/ ExpansionResolve
  \/ ExpansionReject
  \/ OpenModal
  \/ PickSource
  \/ CloseModal
  \/ AddCustomFollowUp
  \/ DeleteNode

SpecG == Init /\ [][NextG]_vars

----------------------------------------------------------------------------
(* getLayoutedElements called again and again on graphs of every shape.    *)

LayoutIds == <<MainId, SearchChildId(0), SearchChildId(1)>>

LayoutNode(k) ==
  IF LayoutIds[k] = MainId THEN LoadingNode(<<"q">>)
  ELSE QuestionNode(LayoutIds[k], <<"f1">>, FALSE)

\* Every list of distinct nodes
LayoutNodeLists ==
  {<<>>}
    \cup {<<LayoutNode(a)>> : a \in 1..3}
    \cup {<<LayoutNode(a), LayoutNode(b)>> : a, b \in 1..3} 
    \cup {<<LayoutNode(a), LayoutNode(b), LayoutNode(c)>> : a, b, c \in 1..3}

LayoutEdge(a, b) ==
  NewEdge(EdgeId(LayoutIds[b]), LayoutIds[a], LayoutIds[b])

\* Every list of edges that lead from an id to a later one
LayoutEdgeLists ==
  {SelectSeq(<<LayoutEdge(1, 2), LayoutEdge(1, 3), LayoutEdge(2, 3)>>,
             LAMBDA e : e \in kept) :
     kept \in SUBSET {LayoutEdge(1, 2), LayoutEdge(1, 3), LayoutEdge(2, 3)}}

\* Graphs with and without edges, with dangling edges, with one root or more
Graphs ==
  {G \in [nodes : LayoutNodeLists, edges : LayoutEdgeLists] :
     \A i, j \in DOMAIN G.nodes : G.nodes[i].id = G.nodes[j].id => i = j}

LayoutCall ==
  \E G \in Graphs :
    LET r == getLayoutedElementsOn(dagreGraph, G.nodes, G.edges)
    IN /\ dagreGraph' = r.graph
       /\ lastLayout' = r.nodes
       /\ UNCHANGED <<query, searchResult, nodes, edges, isLoading,
                      conversationHistory, currentConcept,
                      customBranchQuestions, showFollowUpModal,
                      selectedSourceNodeId, activeRequestRef, edgesRef,
                      nodesRef, requests, searchReq, aborted, lastExpanded,
                      imports, clock, answer, searchResponse,
                      mounted, localStorage, files>>

SpecL == Init /\ [][LayoutCall]_vars

----------------------------------------------------------------------------
(* The extraction of the search route on completion texts of every shape.  *)

\* Lines a completion text may have at most
MaxLines == 5

HeadingLine == <<"#", "#", " ", "*", "*", "H", "*", "*", ":">>

QuestionLine == <<"1.", " ", "a", "?">>

WideQuestionLine == <<"*", " ", "b", "\\uff1f">>

\* Fifteen characters once the markers are stripped
ShortLine == <<"-", " ", "*", "*", "w", "c", "*", "*">>

\* Sixteen characters between white space
LongLine == <<" ", "w", "d", "d", " ">>

BlankLine == <<" ">>

LineKinds ==
  {HeadingLine, QuestionLine, WideQuestionLine, ShortLine, LongLine, BlankLine}

\* join("\n")
RECURSIVE Join(_)
Join(lines) ==
  IF lines = <<>> THEN <<>>
  ELSE IF Len(lines) = 1 THEN lines[1]
  ELSE lines[1] \o <<"\n">> \o Join(Tail(lines))

\* 'Intro text.' / '#### Follow-up Questions' / '1. What is X?' /
\* '2. Why Y?' / '3. How does Z work?'
ExampleAnswer ==
  Join(<< <<"I">>, <<"#", "#", "#", "#", " ", "H">>, <<"1.", " ", "X", "?">>,
          <<"1.", " ", "Y", "?">>, <<"1.", " ", "Z", "?">> >>)

Answers ==
  {Join(lines) : lines \in UNION {[1..n -> LineKinds] : n \in 0..MaxLines}}
    \cup {ExampleAnswer}

sessionVars ==
  <<query, searchResult, nodes, edges, isLoading, conversationHistory,
    currentConcept, customBranchQuestions, showFollowUpModal,
    selectedSourceNodeId, activeRequestRef, edgesRef, nodesRef, requests,
    searchReq, aborted, lastExpanded, imports, clock>>

InitX ==
  /\ InitSession
  /\ answer \in Answers
  /\ searchResponse = NotSent

\* The route from the completion to res.json(searchResponse)
Extract ==
  /\ ~searchResponse.sent
  /\ searchResponse' = [sent |-> TRUE,
                        response |-> mainResponse(answer),
                        followUpQuestions |-> followUpQuestions(answer)]
  /\ UNCHANGED <<answer, sessionVars, dagreGraph, lastLayout,
                 mounted, localStorage, files>>

SpecX == InitX /\ [][Extract]_vars

----------------------------------------------------------------------------
(* The history store: the sessions under HISTORY_KEY in localStorage       *)
(* (services/history.ts) and the session files of the history routes       *)
(* (routes/rabbithole.ts), one file per session id and username.  A        *)
(* session is its id, its timestamp and its query; a file is the session   *)
(* it holds with its name in the directory and, as a history variable, the *)
(* user whose POST wrote it.                                               *)

Sessions ==
  [id : {<<"s">>, <<"s", "_", "a">>}, timestamp : {1, 2},
   query : {Empty, <<"q">>}]

\* Usernames as /register takes them: any text that is not blank
Usernames == {<<"b">>, <<"a", "_", "b">>}

\* sort((a, b) => b.timestamp - a.timestamp): newest first, and stable
RECURSIVE sortByTimestamp(_)
sortByTimestamp(s) ==
  IF s = <<>> THEN <<>>
  ELSE LET x == s[Len(s)]
           rest == sortByTimestamp(SubSeq(s, 1, Len(s) - 1))
       IN SelectSeq(rest, LAMBDA y : y.timestamp >= x.timestamp)
            \o <<x>> \o
          SelectSeq(rest, LAMBDA y : y.timestamp < x.timestamp)

\* getHistorySessions that returns the array as it is stored
getHistorySessions_Unsorted(ls, throws) ==
  IF throws \/ ~ls.present THEN <<>> ELSE ls.value

\* getHistorySessions of history.ts on the storage value ls; throws: every
\* access to localStorage throws
getHistorySessions(ls, throws) ==
  IF throws \/ ~ls.present THEN <<>> ELSE sortByTimestamp(ls.value)

\* saveHistorySession with the session added whether its id is stored or not
saveHistorySession_Push(ls, session, throws) ==
  LET sessions == getHistorySessions(ls, throws)
      stored == [session EXCEPT
                   !.query = IF @ = Empty THEN <<"Untitled Journey">> ELSE @]
  IN [localStorage |->
        IF throws THEN ls
        ELSE [present |-> TRUE, value |-> Append(sessions, stored)],
      raised |-> FALSE]

\* saveHistorySession of history.ts: what it leaves in the storage, and
\* whether it raises.  The session object is the one put into the array, so
\* the query it is given afterwards is stored with it.
saveHistorySession(ls, session, throws) ==
  LET sessions == getHistorySessions(ls, throws)
      stored == [session EXCEPT
                   !.query = IF @ = Empty THEN <<"Untitled Journey">> ELSE @]
      found == {i \in DOMAIN sessions : sessions[i].id = session.id}
      existingIndex == CHOOSE i \in found : \A j \in found : i <= j
  IN [localStorage |->
        IF throws THEN ls
        ELSE [present |-> TRUE,
              value |-> IF found # {}
                        THEN [sessions EXCEPT ![existingIndex] = stored]
                        ELSE Append(sessions, stored)],
      raised |-> FALSE]

\* deleteHistorySession that lets the error of the storage pass
deleteHistorySession_NoCatch(ls, id, throws) ==
  [localStorage |->
     IF throws THEN ls
     ELSE [present |-> TRUE,
           value |-> SelectSeq(getHistorySessions(ls, throws),
                               LAMBDA x : x.id # id)],
   raised |-> throws]

\* deleteHistorySession of history.ts
deleteHistorySession(ls, id, throws) ==
  [localStorage |->
     IF throws THEN ls
     ELSE [present |-> TRUE,
           value |-> SelectSeq(getHistorySessions(ls, throws),
                               LAMBDA x : x.id # id)],
   raised |-> FALSE]

\* renameHistorySession of history.ts
renameHistorySession(ls, id, newName, throws) ==
  LET sessions == getHistorySessions(ls, throws)
      found == {i \in DOMAIN sessions : sessions[i].id = id}
      existingIndex == CHOOSE i \in found : \A j \in found : i <= j
  IN [localStorage |->
        IF throws \/ found = {} THEN ls
        ELSE [present |-> TRUE,
              value |-> [sessions EXCEPT ![existingIndex].query = newName]],
      raised |-> FALSE]

\* path.join(HISTORY_DIR, `${sessionId}_${username}.json`), within the
\* directory
filePath(sessionId, username) ==
  sessionId \o <<"_">> \o username \o <<".json">>

\* GET /history for the user of the token; fails: fs throws.  The body is
\* the files read, in the order of the listing.
historyGet(fs, username, fails) ==
  LET suffix == <<"_">> \o username \o <<".json">>
      endsWith(name) ==
        /\ Len(name) >= Len(suffix)
        /\ SubSeq(name, Len(name) - Len(suffix) + 1, Len(name)) = suffix
  IN IF fails THEN [status |-> 500, body |-> <<>>]
     ELSE [status |-> 200,
           body |-> sortByTimestamp(SelectSeq(fs, LAMBDA f : endsWith(f.name)))]

\* POST /history: fs.writeFile of the session under its path
historyPost(fs, username, session, fails) ==
  LET name == filePath(session.id, username)
      file == [name |-> name, savedBy |-> username, id |-> session.id,
               timestamp |-> session.timestamp, query |-> session.query]
  IN IF session.id = Empty THEN [status |-> 400, files |-> fs]
     ELSE IF fails THEN [status |-> 500, files |-> fs]
     ELSE [status |-> 200,
           files |-> IF \E i \in DOMAIN fs : fs[i].name = name
                     THEN [i \in DOMAIN fs |->
                             IF fs[i].name = name THEN file ELSE fs[i]]
                     ELSE Append(fs, file)]

\* DELETE /history/:id: fs.unlink of the path
historyDelete(fs, username, sessionId, fails) ==
  LET name == filePath(sessionId, username)
  IN IF sessionId = Empty THEN [status |-> 400, files |-> fs]
     ELSE IF fails THEN [status |-> 500, files |-> fs]
     ELSE IF \E i \in DOMAIN fs : fs[i].name = name
     THEN [status |-> 200, files |-> SelectSeq(fs, LAMBDA f : f.name # name)]
     ELSE [status |-> 404, files |-> fs]

\* PUT /history/:id: the file is read, its query set and the file written
historyPut(fs, username, sessionId, newName, fails) ==
  LET name == filePath(sessionId, username)
  IN IF sessionId = Empty \/ newName = Empty
     THEN [status |-> 400, files |-> fs]
     ELSE IF fails THEN [status |-> 500, files |-> fs]
     ELSE IF \E i \in DOMAIN fs : fs[i].name = name
     THEN [status |-> 200,
           files |-> [i \in DOMAIN fs |->
                        IF fs[i].name = name
                        THEN [fs[i] EXCEPT !.query = newName] ELSE fs[i]]]
     ELSE [status |-> 404, files |-> fs]

\* The functions of api.ts around a request: token, whether auth_token is
\* stored; status, what the request ends with, 0 for no response at all;
\* body, the data of the response.  axios rejects for every status outside
\* 2xx and for no response, and the catch logs it.  What each returns:
\* sessions for getHistorySessions, saved (the session was returned) for
\* saveHistorySession, nothing for the other two.
historyApi(token, status, body) ==
  [raised |-> FALSE,
   sessions |-> IF token /\ status = 200 THEN body ELSE <<>>,
   saved |-> token /\ status = 200]

SaveLocal ==
  \E session \in Sessions, throws \in BOOLEAN :
    /\ localStorage' = saveHistorySession(localStorage, session, throws).localStorage
    /\ UNCHANGED <<sessionVars, dagreGraph, lastLayout, answer,
                   searchResponse, mounted, files>>

DeleteLocal ==
  \E id \in {session.id : session \in Sessions}, throws \in BOOLEAN :
    /\ localStorage' =
         deleteHistorySession(localStorage, id, throws).localStorage
    /\ UNCHANGED <<sessionVars, dagreGraph, lastLayout, answer,
                   searchResponse, mounted, files>>

RenameLocal ==
  \E id \in {session.id : session \in Sessions}, throws \in BOOLEAN :
    /\ localStorage' =
         renameHistorySession(localStorage, id, <<"n">>, throws).localStorage
    /\ UNCHANGED <<sessionVars, dagreGraph, lastLayout, answer,
                   searchResponse, mounted, files>>

PostHistory ==
  \E username \in Usernames, session \in Sessions, fails \in BOOLEAN :
    /\ session.timestamp = 1
    /\ session.query # Empty
    /\ files' = historyPost(files, username, session, fails).files
    /\ UNCHANGED <<sessionVars, dagreGraph, lastLayout, answer,
                   searchResponse, mounted, localStorage>>

DeleteHistory ==
  \E username \in Usernames, id \in {session.id : session \in Sessions},
     fails \in BOOLEAN :
    /\ files' = historyDelete(files, username, id, fails).files
    /\ UNCHANGED <<sessionVars, dagreGraph, lastLayout, answer,
                   searchResponse, mounted, localStorage>>

PutHistory ==
  \E username \in Usernames, id \in {session.id : session \in Sessions},
     fails \in BOOLEAN :
    /\ files' = historyPut(files, username, id, <<"n">>, fails).files
    /\ UNCHANGED <<sessionVars, dagreGraph, lastLayout, answer,
                   searchResponse, mounted, localStorage>>

\* The two stores under every sequence of their operations
NextH ==
  \/ SaveLocal
  \/ DeleteLocal
  \/ RenameLocal
  \/ PostHistory
  \/ DeleteHistory
  \/ PutHistory

SpecH == Init /\ [][NextH]_vars

----------------------------------------------------------------------------
(* The history routes behind authenticateToken.                            *)

\* The tokens a request may carry: the user it names, whether it is signed
\* with JWT_SECRET, whether it has expired
Tokens == [username : Usernames, signed : BOOLEAN, expired : BOOLEAN]

\* The authorization header: absent, or the pieces that follow its first
\* word when it is split at the blanks (none for 'Bearer' alone)
AuthHeaders == {Absent, Given(<<>>)} \cup {Given(<<t>>) : t \in Tokens}

\* authenticateToken that decodes the token without verifying it
authenticateToken_Decode(authHeader) ==
  IF ~authHeader.present \/ authHeader.value = <<>>
  THEN [next |-> FALSE, status |-> 401, username |-> Empty]
  ELSE [next |-> TRUE, status |-> 0,
        username |-> authHeader.value[1].username]

\* authenticateToken: 401 without a token, 403 when jwt.verify gives an
\* error (a signature that does not match, an expired token), else req.user
\* is the decoded token and next() is called
authenticateToken(authHeader) ==
  IF ~authHeader.present \/ authHeader.value = <<>>
  THEN [next |-> FALSE, status |-> 401, username |-> Empty]
  ELSE IF ~authHeader.value[1].signed \/ authHeader.value[1].expired
  THEN [next |-> FALSE, status |-> 403, username |-> Empty]
  ELSE [next |-> TRUE, status |-> 0,
        username |-> authHeader.value[1].username]

\* The requests to the history routes: the session is the body of a POST,
\* its id the :id of a DELETE or a PUT; fails: fs throws
HistoryRequests ==
  [method : {"GET", "POST", "DELETE", "PUT"}, authHeader : AuthHeaders,
   session : {session \in Sessions :
                session.timestamp = 1 /\ session.query # Empty},
   fails : BOOLEAN]

\* router.get/post/delete/put('/...', authenticateToken, handler): the
\* handler runs when the middleware calls next().  ran: the handler ran.
historyRoute(fs, req) ==
  LET auth == authenticateToken(req.authHeader)
      user == auth.username
      none == [status |-> auth.status, files |-> fs, body |-> <<>>,
               ran |-> FALSE]
      got == historyGet(fs, user, req.fails)
      done == IF req.method = "POST"
              THEN historyPost(fs, user, req.session, req.fails)
              ELSE IF req.method = "DELETE"
              THEN historyDelete(fs, user, req.session.id, req.fails)
              ELSE historyPut(fs, user, req.session.id, <<"n">>, req.fails)
  IN IF ~auth.next THEN none
     ELSE IF req.method = "GET"
     THEN [status |-> got.status, files |-> fs, body |-> got.body,
           ran |-> TRUE]
     ELSE [status |-> done.status, files |-> done.files, body |-> <<>>,
           ran |-> TRUE]

HistoryRequest ==
  \E req \in HistoryRequests :
    /\ files' = historyRoute(files, req).files
    /\ UNCHANGED <<sessionVars, dagreGraph, lastLayout, answer,
                   searchResponse, mounted, localStorage>>

\* The history store under every sequence of requests
SpecA == Init /\ [][HistoryRequest]_vars

\* Where the first follow-up heading of t begins, 0 when it has none
FirstHeading(t) ==
  IF \E s \in DOMAIN t : followUpSectionRegex(t, s) # 0
  THEN CHOOSE s \in DOMAIN t :
         /\ followUpSectionRegex(t, s) # 0
         /\ \A u \in 1..(s - 1) : followUpSectionRegex(t, u) = 0
  ELSE 0

\* The non-blank lines of t after its first heading, markers stripped
LinesAfterHeading(t) ==
  LET rest == SubSeq(t, followUpSectionRegex(t, FirstHeading(t)), Len(t))
      lines == SelectSeq(splitLines(rest), LAMBDA line : Trim(line) # Empty)
  IN [i \in DOMAIN lines |-> stripMarkers(lines[i])]

\* A question mark of either width, or more than fifteen characters
Qualifies(line) ==
  \/ \E i \in DOMAIN line : line[i] \in {"?", "\\uff1f"}
  \/ Length(line) > 15

\* There is a path of at most k edges of es from a to b
RECURSIVE Connected(_, _, _, _)
Connected(a, b, es, k) ==
  \/ a = b
  \/ /\ k > 0
     /\ \E j \in DOMAIN es : es[j].source = a /\ Connected(es[j].target, b, es, k - 1)

\* What the handler takes as a branch-only file
IsBranchOnly(data) ==
  data.parses /\ data.type = "branch-only" /\ data.branchQuestions.present

\* What the handler takes as a full graph and installs
IsFullGraph(data) ==
  /\ data.parses
  /\ ~IsBranchOnly(data)
  /\ data.nodes.present /\ data.edges.present
  /\ ~LayoutThrows(data.nodes.value, data.edges.value)

----------------------------------------------------------------------------
(* Notions the properties share *)

\* Edges of the edge list that end at the node
InDegree(id) == Cardinality({j \in DOMAIN edges : edges[j].target = id})

\* A node without its position
Data(n) == [id |-> n.id, type |-> n.type, label |-> n.label,
            content |-> n.content, isExpanded |-> n.isExpanded,
            isCustom |-> n.isCustom]

\* ns begins with the nodes of old, id by id, and es with the edges of old
KeepsIds(old, ns) ==
  /\ Len(ns) >= Len(old)
  /\ \A i \in DOMAIN old : ns[i].id = old[i].id

\* The state a call leaves when all it does is end
Ended(call) == [Cur EXCEPT !.requests = @ \ {call}]

\* An id handleNodeClick gave to a child of an expansion
IsExpansionChild(id) == id[1] = "question-" /\ id[2] > 0

\* The turn conversationHistory holds for a node
Turn(n) == [user |-> n.label, assistant |-> n.content]

----------------------------------------------------------------------------
(* Properties *)

\* C1: single-flight.  At most one node has a controller registered and at
\* most one request is in flight; a request in flight is the registered one
\* of its node; and while one is in flight a click on any node of the graph,
\* the pending one included, leaves the whole state as it is (no request,
\* no change of nodes, edges or conversationHistory).
C1_SingleFlight ==
  /\ Cardinality(Registered) <= 1
  /\ Cardinality(requests) <= 1
  /\ \A call \in requests : ActiveToken(call.node.id) = call.token
  /\ requests # {} => \A i \in DOMAIN nodes : handleNodeClick(nodes[i]) = Cur

\* A request is in flight and another unexpanded question node can be clicked
C1_Witness ==
  \E call \in requests : \E i \in DOMAIN nodes :
    /\ nodes[i].id # call.node.id
    /\ StartsWithQuestion(nodes[i].id)
    /\ ~nodes[i].isExpanded

\* C2: the tree invariant.  In every state with at least one node, exactly
\* one node has no incoming edge and every other node has exactly one.
C2_TreeInvariant ==
  nodes # <<>> =>
    /\ Cardinality({i \in DOMAIN nodes : InDegree(nodes[i].id) = 0}) = 1
    /\ \A i \in DOMAIN nodes : InDegree(nodes[i].id) <= 1

\* C3: stale-result discard.  When the token stored for the node of a call
\* is no longer the one the call captured, the arrival of its response, or
\* of its error, leaves nodes, edges, the registry and all the rest of the
\* state as they were: the call ends and that is all.
C3_StaleDiscard ==
  \A call \in requests :
    ActiveToken(call.node.id) # call.token =>
      /\ \A r \in ExpansionResponses : handleNodeClickResolved(call, r) = Ended(call)
      /\ \A name \in {"Error", "AbortError"} :
           handleNodeClickRejected(call, name) = Ended(call)

\* A cancelled call has ended and its node is not in the graph
C3_Witness ==
  /\ requests = {}
  /\ aborted # {}
  /\ \E id \in DOMAIN activeRequestRef : id \notin Ids(nodes)

\* C4: failure revert.  When the request of a pending node N rejects with an
\* error that is no cancellation, N is a question node again (isExpanded
\* false, content empty, the label it had when clicked), every other node and
\* the edge list are as before, no node is added, and no request is in
\* flight or registered for N.
C4_FailureRevert ==
  \A call \in requests :
    ActiveToken(call.node.id) = call.token =>
      LET st == handleNodeClickRejected(call, "Error")
      IN /\ Len(st.nodes) = Len(nodes)
         /\ \A i \in DOMAIN nodes :
              IF nodes[i].id = call.node.id
              THEN Data(st.nodes[i]) =
                     Data(QuestionNode(call.node.id, call.node.label,
                                       call.node.isCustom))
              ELSE st.nodes[i] = nodes[i]
         /\ st.edges = edges
         /\ st.requests = requests \ {call}
         /\ st.activeRequestRef[call.node.id] = NoToken

\* No import took place, nothing is in flight, and a node that had a request
\* registered is an unexpanded question node: its expansion failed
C4_Witness ==
  /\ imports = 0
  /\ requests = {}
  /\ \E i \in DOMAIN nodes :
       /\ nodes[i].id \in DOMAIN activeRequestRef
       /\ nodes[i].type = "default"
       /\ ~nodes[i].isExpanded
       /\ nodes[i].content = Empty

\* C5: history ordering.  The turn a click appends to conversationHistory is
\* the label and content of the main node expanded most recently.
C5_HistoryOrdering ==
  \A i \in DOMAIN nodes : \A j \in DOMAIN nodesRef :
    (handleNodeClick(nodes[i]) # Cur /\ nodesRef[j].id = lastExpanded) =>
      handleNodeClick(nodes[i]).conversationHistory =
        Append(conversationHistory, Turn(nodesRef[j]))

\* C6: atomic result application.  No state has an edge to a child of an
\* expansion without that child, a child of an expansion without its edge,
\* or a node that carries a response without the children of that response
\* and the edges from the node to them.
C6_AtomicApplication ==
  /\ \A j \in DOMAIN edges :
       IsExpansionChild(edges[j].target) => edges[j].target \in Ids(nodes)
  /\ \A i \in DOMAIN nodes :
       IsExpansionChild(nodes[i].id) =>
         \E j \in DOMAIN edges :
           edges[j].target = nodes[i].id /\ edges[j].id = EdgeId(nodes[i].id)
  /\ \A i \in DOMAIN nodes : \A r \in ExpansionResponses :
       nodes[i].content = r.response =>
         Cardinality({j \in DOMAIN edges :
                        /\ edges[j].source = nodes[i].id
                        /\ IsExpansionChild(edges[j].target)
                        /\ edges[j].target \in Ids(nodes)})
           = Len(r.followUpQuestions)

\* A node carries the response that has a follow-up question
C6_Witness ==
  \E i \in DOMAIN nodes : nodes[i].content = <<"a1">>

\* C7: isExpanded is monotonic.  In every step, a node that has isExpanded
\* true and is still in the graph after the step has isExpanded true.
C7_Monotonic ==
  [][\A i \in DOMAIN nodes : \A j \in DOMAIN nodes' :
       (nodes[i].isExpanded /\ nodes'[j].id = nodes[i].id) => nodes'[j].isExpanded]_vars

\* C7 as amended: in every step that does not replace the graph (no import,
\* no start or end of the initial search), a node that has isExpanded true
\* and no request registered, and is still in the graph after the step, has
\* isExpanded true.
C7_MonotonicCompleted ==
  [][(imports' = imports /\ searchReq' = searchReq) =>
       \A i \in DOMAIN nodes : \A j \in DOMAIN nodes' :
         (/\ nodes[i].isExpanded
          /\ ActiveToken(nodes[i].id) = NoToken
          /\ nodes'[j].id = nodes[i].id) => nodes'[j].isExpanded]_vars

\* Without an import: a node whose expansion succeeded is expanded, beside a
\* node whose expansion failed afterwards
C7_Witness ==
  /\ imports = 0
  /\ \E i \in DOMAIN nodes : \E k \in DOMAIN nodes :
       /\ nodes[i].id # MainId
       /\ nodes[i].isExpanded
       /\ nodes[i].content # Loading
       /\ nodes[k].id \in DOMAIN activeRequestRef
       /\ ~nodes[k].isExpanded

\* C8: entry condition.  A click starts a request only for a node of kind
\* question that is not expanded and is not the root.
C8_EntryCondition ==
  \A i \in DOMAIN nodes :
    handleNodeClick(nodes[i]) # Cur =>
      /\ nodes[i].type = "default"
      /\ ~nodes[i].isExpanded
      /\ InDegree(nodes[i].id) > 0

\* C9: manual branch addition.  Whenever the follow-up modal is open, with
\* or without a request in flight, a non-blank question adds one node (a
\* custom, unexpanded question node that has the trimmed question as label)
\* at the end of the node list and one edge, from the chosen source (the
\* inferred one if none is chosen) to it, at the end of the edge list; the
\* data of every other node, the other edges, the registry and the calls in
\* flight stay as they are.  A blank question changes nothing.
C9_ManualBranch ==
  showFollowUpModal =>
    \A input \in FollowUpInputs :
      LET st == handleAddCustomFollowUp(input)
          k == Len(nodes) + 1
      IN IF Trim(input) = Empty THEN st = Cur
         ELSE /\ Len(st.nodes) = k
              /\ \A i \in DOMAIN nodes : Data(st.nodes[i]) = Data(nodes[i])
              /\ st.nodes[k].id \notin Ids(nodes)
              /\ Data(st.nodes[k]) =
                   Data(QuestionNode(st.nodes[k].id, Trim(input), TRUE))
              /\ st.edges = Append(edges, NewEdge(EdgeId(st.nodes[k].id),
                                                  SourceId, st.nodes[k].id))
              /\ selectedSourceNodeId # NoId => SourceId = selectedSourceNodeId
              /\ st.activeRequestRef = activeRequestRef
              /\ st.requests = requests
              /\ st.searchReq = searchReq
              /\ st.conversationHistory = conversationHistory

\* A custom node was added while the request that is in flight was pending
C9_Witness ==
  \E call \in requests : \E i \in DOMAIN nodes :
    /\ nodes[i].isCustom
    /\ nodes[i].id[2] > call.token
    /\ \E j \in DOMAIN edges : edges[j].target = nodes[i].id

\* C10: import is all-or-nothing.  For every file the import reports an
\* error for, query, currentConcept, conversationHistory, nodes, edges and
\* the custom-question pool keep their values.
C10_ImportAllOrNothing ==
  \A data \in Payloads :
    LET st == handleImportJSON(data)
    IN st.importToast = "error" =>
         /\ st.query = query
         /\ st.currentConcept = currentConcept
         /\ st.conversationHistory = conversationHistory
         /\ st.nodes = nodes
         /\ st.edges = edges
         /\ st.customBranchQuestions = customBranchQuestions

\* C11: branch-only import.  For every file of type "branch-only" that has
\* an array branchQuestions, whatever else it carries, the import makes
\* branchQuestions the custom-question pool and leaves nodes, edges, query,
\* currentConcept, conversationHistory and all the rest of the state as
\* they are.
C11_BranchOnlyImport ==
  \A data \in ImportFiles :
    IsBranchOnly(data) =>
      LET st == handleImportJSON(data)
      IN /\ st.customBranchQuestions = data.branchQuestions.value
         /\ st.importToast = "ok"
         /\ [st EXCEPT !.customBranchQuestions = customBranchQuestions,
                       !.importToast = "none"] = Cur

\* The pool is the one of the branch-only file that also carries a graph,
\* imported over the graph of a search
C11_Witness ==
  /\ customBranchQuestions = << <<"p2">> >>
  /\ \E i \in DOMAIN nodes : nodes[i].content = <<"a0">>
  /\ query = <<"q">>

\* C12: full-graph import.  For every file the import accepts as a full
\* graph, each of query, currentConcept and conversationHistory that is
\* present in the file, whatever its value, replaces the session field, each
\* that is absent leaves it as it is, and the nodes and edges of the file
\* become the active ones.
C12_FieldOverwrite ==
  \A data \in ImportFiles :
    IsFullGraph(data) =>
      LET st == handleImportJSON(data)
      IN /\ st.query = (IF data.query.present THEN data.query.value ELSE query)
         /\ st.currentConcept =
              (IF data.currentConcept.present
               THEN data.currentConcept.value ELSE currentConcept)
         /\ st.conversationHistory =
              (IF data.conversationHistory.present
               THEN data.conversationHistory.value ELSE conversationHistory)
         /\ Len(st.nodes) = Len(data.nodes.value)
         /\ \A i \in DOMAIN st.nodes : Data(st.nodes[i]) = Data(data.nodes.value[i])
         /\ st.edges = data.edges.value

\* C13: subtree deletion.  Deleting node n removes n and every node that a
\* path of outgoing edges reaches from n, removes every edge that has an
\* end among the removed nodes, and leaves every other node and edge as it
\* is and in its place; in the chain main -> q1 -> q2, deleting q1 leaves
\* main alone and no edge.
C13_SubtreeDeletion ==
  nodes = nodesRef /\ edges = edgesRef =>
    \A i \in DOMAIN nodes :
      LET n == nodes[i].id
          st == removeSubtree(n)
          gone(id) == Connected(n, id, edges, Len(edges))
      IN /\ st.nodes = SelectSeq(nodes, LAMBDA m : ~gone(m.id))
         /\ st.edges = SelectSeq(edges, LAMBDA e : ~gone(e.source) /\ ~gone(e.target))
         /\ (/\ Len(nodes) = 3 /\ Len(edges) = 2 /\ i = 2
             /\ edges[1].source = nodes[1].id /\ edges[1].target = nodes[2].id
             /\ edges[2].source = nodes[2].id /\ edges[2].target = nodes[3].id)
            => (st.nodes = <<nodes[1]>> /\ st.edges = <<>>)

\* The root is alone, with no edge, after the node that was expanded from it
\* was deleted with its child
C13_Witness ==
  /\ imports = 0
  /\ Ids(nodes) = {MainId}
  /\ edges = <<>>
  /\ lastExpanded = SearchChildId(0)
  /\ customBranchQuestions = <<>>

\* C14: layout is idempotent and free of history.  Whatever graphs were
\* laid out before, the shared dagre graph is empty once the handler has
\* removed its nodes, and for every graph G the positions the call returns
\* are those a call on a new dagre graph returns, those the same call
\* returns when repeated at once, and those of getLayoutedElements as a
\* function of G.
C14_LayoutHistoryFree ==
  /\ dagreClear(dagreGraph) = EmptyDagre
  /\ \A G \in Graphs :
       LET r == getLayoutedElementsOn(dagreGraph, G.nodes, G.edges)
       IN /\ r.nodes = getLayoutedElementsOn(EmptyDagre, G.nodes, G.edges).nodes
          /\ r.nodes = getLayoutedElementsOn(r.graph, G.nodes, G.edges).nodes
          /\ r.nodes = getLayoutedElements(G.nodes, G.edges).nodes

\* The last call left nodes and edges in the shared graph, one of the nodes
\* made by an edge alone
C14_Witness ==
  /\ dagreGraph.edges # {}
  /\ lastLayout # <<>>
  /\ Len(dagreGraph.nodes) > Len(lastLayout)

\* C15: layout frame.  getLayoutedElements returns the nodes it was given,
\* as many, in the same order, each with its id, kind and data, and the
\* edge list it was given; and every operation that works on the graph in
\* place (click, arrival of a response or an error, custom follow-up)
\* leaves every node and edge that was there at its place with its id.
C15_LayoutFrame ==
  /\ LET r == getLayoutedElements(nodesRef, edgesRef)
     IN /\ Len(r.nodes) = Len(nodesRef)
        /\ \A i \in DOMAIN nodesRef : Data(r.nodes[i]) = Data(nodesRef[i])
        /\ r.edges = edgesRef
  /\ \A i \in DOMAIN nodes :
       /\ KeepsIds(nodes, handleNodeClick(nodes[i]).nodes)
       /\ handleNodeClick(nodes[i]).edges = edges
  /\ \A call \in requests :
       /\ \A r \in ExpansionResponses :
            LET st == handleNodeClickResolved(call, r)
            IN /\ KeepsIds(nodes, st.nodes)
               /\ KeepsIds(edges, st.edges)
               /\ SubSeq(st.edges, 1, Len(edges)) = edges
       /\ \A name \in {"Error", "AbortError"} :
            LET st == handleNodeClickRejected(call, name)
            IN KeepsIds(nodes, st.nodes) /\ st.edges = edges
  /\ showFollowUpModal =>
       \A input \in FollowUpInputs :
         LET st == handleAddCustomFollowUp(input)
         IN /\ KeepsIds(nodes, st.nodes)
            /\ KeepsIds(edges, st.edges)
            /\ SubSeq(st.edges, 1, Len(edges)) = edges

\* A custom follow-up was laid out into the graph of a search while a
\* request is in flight
C15_Witness ==
  /\ requests # {}
  /\ \E i \in DOMAIN nodes :
       /\ nodes[i].isCustom
       /\ nodes[i].id[1] = "question-custom-"
       /\ nodes[i].position # Origin
  /\ \E i \in DOMAIN nodes : nodes[i].content = <<"a0">>

\* C16: positions are a projection of the graph.  In every state the
\* position stored in each node is the one getLayoutedElements computes
\* from the nodes and edges of that state.
C16_PositionsDerived ==
  \A i \in DOMAIN nodes :
    nodes[i].position = getLayoutedElements(nodes, edges).nodes[i].position

\* C17: extraction split.  When the text has the follow-up heading, once or
\* more often, the response sent is the trimmed text before the first
\* heading and the questions sent are taken from all the non-blank lines
\* after that first heading; the text 'Intro text.' / '#### Follow-up
\* Questions' / '1. What is X?' / '2. Why Y?' / '3. How does Z work?' gives
\* 'Intro text.' and the three questions in that order, enumerators
\* stripped.
C17_ExtractionSplit ==
  (searchResponse.sent /\ FirstHeading(answer) # 0) =>
    /\ searchResponse.response =
         Trim(SubSeq(answer, 1, FirstHeading(answer) - 1))
    /\ searchResponse.followUpQuestions =
         slice3(SelectSeq(LinesAfterHeading(answer), Qualifies))
    /\ answer = ExampleAnswer =>
         /\ searchResponse.response = <<"I">>
         /\ searchResponse.followUpQuestions =
              << <<"X", "?">>, <<"Y", "?">>, <<"Z", "?">> >>

\* C18: extraction fallback.  For a text without a follow-up heading the
\* response sent is the whole text and no question is sent.
C18_ExtractionFallback ==
  (searchResponse.sent /\ FirstHeading(answer) = 0) =>
    /\ searchResponse.response = answer
    /\ searchResponse.followUpQuestions = <<>>

\* C18 as amended: for a text without a follow-up heading the response sent
\* is the whole text with the white space at its ends trimmed, and no
\* question is sent.
C18_ExtractionFallbackTrimmed ==
  (searchResponse.sent /\ FirstHeading(answer) = 0) =>
    /\ searchResponse.response = Trim(answer)
    /\ searchResponse.followUpQuestions = <<>>

\* A text without heading was sent: it has a question line, and white space
\* at an end that the response lacks
C18_Witness ==
  /\ searchResponse.sent
  /\ FirstHeading(answer) = 0
  /\ "?" \in Range(answer)
  /\ searchResponse.response # answer

\* C19: extraction keep rule.  Every question sent has a question mark of
\* either width or more than fifteen characters, and every candidate line
\* that, stripped of its markers, has one or the other is sent, unless
\* three such lines precede it; a stripped line of fifteen characters or
\* fewer without a question mark is never sent.
C19_KeepRule ==
  searchResponse.sent =>
    LET c == candidateLines(answer)
        sentLines == Range(searchResponse.followUpQuestions)
    IN /\ \A q \in sentLines : q \in Range(c) /\ Qualifies(q)
       /\ \A i \in DOMAIN c :
            (/\ Qualifies(c[i])
             /\ Cardinality({j \in 1..(i - 1) : Qualifies(c[j])}) < 3)
              => c[i] \in sentLines

\* A line of sixteen characters without question mark was sent and one of
\* fifteen was dropped
C19_Witness ==
  /\ searchResponse.sent
  /\ \E q \in Range(searchResponse.followUpQuestions) :
       Length(q) = 16 /\ "?" \notin Range(q)
  /\ \E i \in DOMAIN candidateLines(answer) :
       /\ Length(candidateLines(answer)[i]) = 15
       /\ candidateLines(answer)[i] \notin Range(searchResponse.followUpQuestions)

\* C20: extraction cap.  For every text at most three questions are sent,
\* and they are the first three lines kept, in the order of the text.
C20_ExtractionCap ==
  searchResponse.sent =>
    LET kept == SelectSeq(candidateLines(answer), Qualifies)
        sentLines == searchResponse.followUpQuestions
    IN /\ Len(sentLines) <= 3
       /\ Len(sentLines) = (IF Len(kept) > 3 THEN 3 ELSE Len(kept))
       /\ \A i \in DOMAIN sentLines : sentLines[i] = kept[i]

\* Four lines were kept, three were sent, and the fourth differs from the
\* first
C20_Witness ==
  /\ searchResponse.sent
  /\ Len(searchResponse.followUpQuestions) = 3
  /\ LET kept == SelectSeq(candidateLines(answer), Qualifies)
     IN Len(kept) = 4 /\ kept[4] # kept[1]

\* C21: children from the service.  A response that arrives for the
\* registered request of node N, with k follow-up questions, leaves the
\* nodes that were there in their places with their ids, and all but N with
\* their data; adds k nodes at the end, unexpanded question nodes with new,
\* distinct ids and the k questions as labels in the order of the response;
\* leaves the edges that were there and adds k edges at the end, the i-th
\* from N to the i-th new node; and gives N the contextualQuery as label if
\* the response has one, the label N had when it was clicked otherwise.
C21_ChildrenFromService ==
  \A call \in requests :
    \A r \in ExpansionResponses \cup
             {[response |-> <<"a3">>, contextualQuery |-> Empty,
               followUpQuestions |-> << <<"g2">>, <<"g1">> >>]} :
      ActiveToken(call.node.id) = call.token =>
        LET st == handleNodeClickResolved(call, r)
            N == call.node.id
            fq == r.followUpQuestions
            n0 == Len(nodes)
            e0 == Len(edges)
        IN /\ Len(st.nodes) = n0 + Len(fq)
           /\ Len(st.edges) = e0 + Len(fq)
           /\ \A i \in DOMAIN nodes :
                /\ st.nodes[i].id = nodes[i].id
                /\ nodes[i].id # N => Data(st.nodes[i]) = Data(nodes[i])
                /\ nodes[i].id = N =>
                     st.nodes[i].label = OrElse(r.contextualQuery, call.node.label)
           /\ \A j \in DOMAIN edges : st.edges[j] = edges[j]
           /\ \A i \in DOMAIN fq :
                /\ Data(st.nodes[n0 + i]) =
                     Data(QuestionNode(st.nodes[n0 + i].id, fq[i], FALSE))
                /\ StartsWithQuestion(st.nodes[n0 + i].id)
                /\ st.nodes[n0 + i].id \notin Ids(nodes)
                /\ \A k \in DOMAIN fq : k # i => st.nodes[n0 + k].id # st.nodes[n0 + i].id
                /\ st.edges[e0 + i].source = N
                /\ st.edges[e0 + i].target = st.nodes[n0 + i].id

\* An expanded node has the contextualQuery of its response as label, another
\* has kept its label and has the child of its response, with the edge
C21_Witness ==
  /\ \E i \in DOMAIN nodes :
       nodes[i].content = <<"a2">> /\ nodes[i].label = <<"c2">>
  /\ \E i, k \in DOMAIN nodes :
       /\ nodes[i].content = <<"a1">>
       /\ nodes[k].label = <<"g1">>
       /\ \E j \in DOMAIN edges :
            edges[j].source = nodes[i].id /\ edges[j].target = nodes[k].id

\* C22: ids are unique.  In every state no two entries of the node list
\* have the same id and no two entries of the edge list have the same id.
C22_UniqueIds ==
  /\ \A i, j \in DOMAIN nodes : nodes[i].id = nodes[j].id => i = j
  /\ \A i, j \in DOMAIN edges : edges[i].id = edges[j].id => i = j

\* C23: cancellation is silent.  When the request of a call was aborted,
\* the rejection the abort causes, whatever the client throws for it, is
\* not taken for an expansion failure: nothing is reported, and the handler
\* leaves the node list and the edge list as they are.
C23_SilentCancellation ==
  \A call \in requests :
    call.token \in aborted =>
      \A name \in AbortRejections :
        /\ ~IsExpansionFailure(call, name)
        /\ handleNodeClickRejected(call, name).nodes = nodes
        /\ handleNodeClickRejected(call, name).edges = edges

C25_FailuresDoNotBlock ==
  /\ getHistorySessions(localStorage, TRUE) = <<>>
  /\ \A session \in Sessions :
       \A r \in {saveHistorySession(localStorage, session, TRUE),
                 deleteHistorySession(localStorage, session.id, TRUE),
                 renameHistorySession(localStorage, session.id, <<"n">>, TRUE)} :
         /\ ~r.raised
         /\ r.localStorage = localStorage
         /\ DOMAIN r = {"localStorage", "raised"}
  /\ \A username \in Usernames : \A session \in Sessions :
       /\ historyGet(files, username, TRUE).status = 500
       /\ \A route \in {historyPost(files, username, session, TRUE),
                        historyDelete(files, username, session.id, TRUE),
                        historyPut(files, username, session.id, <<"n">>, TRUE)} :
            route.status = 500 /\ route.files = files
       /\ \A token \in BOOLEAN : \A status \in {0, 500} :
            LET r == historyApi(token, status,
                                historyGet(files, username, TRUE).body)
            IN ~r.raised /\ r.sessions = <<>> /\ ~r.saved

\* Both stores hold sessions, the local one two of them, when the failure
\* occurs
C25_Witness ==
  /\ localStorage.present
  /\ Len(localStorage.value) = 2
  /\ Len(files) = 2

\* C27: the local store holds at most one session per id.  In every state
\* reached by saves, deletes and renames no two stored sessions have the
\* same id, and the list getHistorySessions returns is ordered by timestamp,
\* newest first; and a save of session s leaves, besides the sessions of
\* other ids as they were, s (with the query 'Untitled Journey' if it has
\* none) in the place of the session of its id if one was stored, at the
\* end otherwise, and the list is again ordered newest first.
C27_OnePerId ==
  LET before == getHistorySessions(localStorage, FALSE)
      Ordered(l) == \A i, j \in DOMAIN l : i < j => l[i].timestamp >= l[j].timestamp
      OnePerId(l) == \A i, j \in DOMAIN l : l[i].id = l[j].id => i = j
  IN /\ OnePerId(localStorage.value)
     /\ Ordered(before)
     /\ Range(before) = Range(localStorage.value)
     /\ \A s \in Sessions :
          LET after == saveHistorySession(localStorage, s, FALSE).localStorage.value
              stored == [s EXCEPT
                           !.query = IF @ = Empty THEN <<"Untitled Journey">> ELSE @]
          IN /\ OnePerId(after)
             /\ Ordered(getHistorySessions([present |-> TRUE, value |-> after], FALSE))
             /\ IF \E i \in DOMAIN before : before[i].id = s.id
                THEN /\ Len(after) = Len(before)
                     /\ \A i \in DOMAIN before :
                          after[i] = IF before[i].id = s.id THEN stored ELSE before[i]
                ELSE after = Append(before, stored)

\* Two sessions are stored, the newer one after the older one in the array
C27_Witness ==
  /\ localStorage.present
  /\ Len(localStorage.value) = 2
  /\ localStorage.value[1].timestamp < localStorage.value[2].timestamp

\* C28: history listing isolation.  In every state of the server, the
\* listing GET /history returns to a user holds only sessions whose file was
\* written by a save of that user.
C28_ListingIsolation ==
  \A U \in Usernames :
    \A i \in DOMAIN historyGet(files, U, FALSE).body :
      historyGet(files, U, FALSE).body[i].savedBy = U

\* C29: history write isolation.  For users U and V of different usernames
\* and all session ids, the path of a session of U is not the path of a
\* session of V, and a save, a delete or a rename by U leaves every file
\* written by a save of V as it is.
C29_WriteIsolation ==
  \A U \in Usernames : \A V \in Usernames \ {U} :
    \A session \in Sessions :
      /\ \A other \in Sessions :
           filePath(session.id, U) # filePath(other.id, V)
      /\ \A route \in {historyPost(files, U, session, FALSE),
                       historyDelete(files, U, session.id, FALSE),
                       historyPut(files, U, session.id, <<"n">>, FALSE)} :
           \A i \in DOMAIN files :
             files[i].savedBy = V => files[i] \in Range(route.files)

\* C26: pending always ends.  With a query service that ends every request,
\* whenever a controller is registered, a state follows in which none is;
\* and in the step in which the controller of a node leaves the registry,
\* the request not having been aborted, no controller is left for any node,
\* every node of its id is then expanded with an answer or unexpanded, and
\* a click on any unexpanded question node is then accepted.
C26_PendingEnds ==
  /\ hasActiveRequests ~> ~hasActiveRequests
  /\ [][\A id \in Registered :
          (id \notin Registered' /\ ActiveToken(id) \notin aborted) =>
            (/\ Registered = {}
             /\ \A i \in DOMAIN nodes :
                  /\ nodes[i].id = id =>
                       \/ nodes[i].isExpanded /\ nodes[i].content # Loading
                       \/ ~nodes[i].isExpanded
                  /\ (StartsWithQuestion(nodes[i].id) /\ ~nodes[i].isExpanded) =>
                       ClickAccepted(nodes[i]))']_vars

\* A request has ended with a failure: its node is unexpanded again, no
\* controller is registered, and a second request has ended after it
C26_Witness ==
  /\ ~hasActiveRequests
  /\ requests = {}
  /\ \E id \in DOMAIN activeRequestRef : \E i \in DOMAIN nodes :
       nodes[i].id = id /\ ~nodes[i].isExpanded
  /\ \E id \in DOMAIN activeRequestRef : \E i \in DOMAIN nodes :
       nodes[i].id = id /\ nodes[i].isExpanded /\ nodes[i].content # Loading

\* A custom follow-up added after the click of the call: its node is in the
\* node list and its edge in the edge list
AddedWhilePending(call, i) ==
  /\ nodes[i].isCustom
  /\ nodes[i].id[1] = "question-custom-"
  /\ nodes[i].id[2] > call.token
  /\ \E j \in DOMAIN edges : edges[j].target = nodes[i].id

\* C30: a custom follow-up added while an expansion is pending is not lost.
\* For every call in flight and every custom follow-up added after its
\* click: whatever the request resolves or rejects with, the custom node is
\* in the node list afterwards with the data it had and every edge that
\* arrives at it is in the edge list; and after a response to a call whose
\* controller is the registered one, every follow-up question of the
\* response has a new node, joined to the node of the call by an edge.
C30_CustomFollowUpKept ==
  \A call \in requests :
      \A i \in DOMAIN nodes :
        AddedWhilePending(call, i) =>
          /\ \A r \in ExpansionResponses :
               LET st == handleNodeClickResolved(call, r)
               IN /\ \E k \in DOMAIN st.nodes : Data(st.nodes[k]) = Data(nodes[i])
                  /\ \A j \in DOMAIN edges :
                       edges[j].target = nodes[i].id =>
                         \E k \in DOMAIN st.edges : st.edges[k] = edges[j]
                  /\ \A q \in DOMAIN r.followUpQuestions :
                       ActiveToken(call.node.id) = call.token =>
                       \E k \in DOMAIN st.nodes :
                         /\ st.nodes[k].id \notin Ids(nodes)
                         /\ st.nodes[k].label = r.followUpQuestions[q]
                         /\ \E e \in DOMAIN st.edges :
                              /\ st.edges[e].source = call.node.id
                              /\ st.edges[e].target = st.nodes[k].id
          /\ \A name \in ErrorNames(call) :
               LET st == handleNodeClickRejected(call, name)
               IN /\ \E k \in DOMAIN st.nodes : Data(st.nodes[k]) = Data(nodes[i])
                  /\ \A j \in DOMAIN edges :
                       edges[j].target = nodes[i].id =>
                         \E k \in DOMAIN st.edges : st.edges[k] = edges[j]

\* A custom follow-up was added while the request in flight, whose
\* controller is the registered one, was pending: its node shows Loading
C30_Witness ==
  \E call \in requests : \E i \in DOMAIN nodes :
    /\ ActiveToken(call.node.id) = call.token
    /\ AddedWhilePending(call, i)
    /\ \E j \in DOMAIN nodes : nodes[j].id = call.node.id /\ nodes[j].content = Loading

\* C31: edge referential integrity.  In every reachable state the source
\* and the target of every edge are ids of nodes of the node list; and for
\* every call in flight whose node is no longer in the node list, whatever
\* the request resolves with, the node list and the edge list are
\* afterwards as long as they were.
C31_EdgeIntegrity ==
  /\ \A j \in DOMAIN edges :
       /\ edges[j].source \in Ids(nodes)
       /\ edges[j].target \in Ids(nodes)
  /\ \A call \in requests :
       call.node.id \notin Ids(nodes) =>
         \A r \in ExpansionResponses :
           LET st == handleNodeClickResolved(call, r)
           IN /\ Len(st.nodes) = Len(nodes)
              /\ Len(st.edges) = Len(edges)

\* C32: initial search versus import.  While a search request is in flight
\* over a session that a full-graph import has made active (searchResult is
\* set only by the import then), whatever the search resolves with, the
\* node list and the edge list are afterwards what they were, and a click
\* on any node starts no expansion.
C32_SearchVersusImport ==
  \A call \in searchReq :
    searchResult = "set" =>
      /\ \A r \in SearchResponses :
           LET st == handleSearchResolved(call, r)
           IN st.nodes = nodes /\ st.edges = edges
      /\ \A i \in DOMAIN nodes : handleNodeClick(nodes[i]) = Cur

\* C33: a failed expansion leaves the session as it was before the click.
\* In every step that starts an expansion, the failure of the new request
\* right after the step gives back the node list, the edge list and the
\* conversationHistory of before the step.
C33_FailureRestores ==
  [][\A call \in requests' \ requests :
       \A old \in {[nodes |-> nodes, edges |-> edges,
                    conversationHistory |-> conversationHistory]} :
         (LET st == handleNodeClickRejected(call, "Error")
          IN /\ st.nodes = old.nodes
             /\ st.edges = old.edges
             /\ st.conversationHistory = old.conversationHistory)']_vars

\* C34: shadow copies stay in sync.  In every reachable state nodesRef is
\* the node list and edgesRef is the edge list.
C34_RefsInSync ==
  /\ nodesRef = nodes
  /\ edgesRef = edges

\* C35: export/import round trip.  In every state in which the export is
\* offered and the query is not empty, the exported payload has version
\* "1.0" and the query, currentConcept, conversationHistory, nodes and
\* edges of the session; and the import of the exported file, into the
\* session itself or into the session that the next step makes of it, gives
\* the ids, kinds, labels, contents and isExpanded flags of its nodes, its
\* edges, its query, its currentConcept and its conversationHistory.
C35_RoundTrip ==
  /\ [](searchResult = "set" /\ query # Empty =>
          /\ handleExportJSON.version = "1.0"
          /\ handleExportJSON.query = query
          /\ handleExportJSON.currentConcept = currentConcept
          /\ handleExportJSON.conversationHistory = conversationHistory
          /\ handleExportJSON.nodes = nodes
          /\ handleExportJSON.edges = edges
          /\ LET st == handleImportJSON(JSONparse(JSONstringify(handleExportJSON)))
             IN /\ [i \in DOMAIN st.nodes |-> Data(st.nodes[i])] =
                     [i \in DOMAIN nodes |-> Data(nodes[i])]
                /\ st.edges = edges
                /\ st.query = query
                /\ st.currentConcept = currentConcept
                /\ st.conversationHistory = conversationHistory)
  /\ [][searchResult = "set" /\ query # Empty =>
          \A S \in {handleExportJSON} :
            (LET st == handleImportJSON(JSONparse(JSONstringify(S)))
             IN /\ [i \in DOMAIN st.nodes |-> Data(st.nodes[i])] =
                     [i \in DOMAIN S.nodes |-> Data(S.nodes[i])]
                /\ st.edges = S.edges
                /\ st.query = S.query
                /\ st.currentConcept = S.currentConcept
                /\ st.conversationHistory = S.conversationHistory)']_vars

\* C36: no node is stuck loading.  A node that is expanded with the
\* placeholder content is in the node list of no state in which no request
\* is in flight, and in no payload the export produces; and whenever the
\* node list holds one, a controller is registered for its id.
C36_NoStuckLoading ==
  /\ (requests = {} /\ searchReq = {}) =>
       \A i \in DOMAIN nodes :
         ~(nodes[i].isExpanded /\ nodes[i].content = Loading)
  /\ searchResult = "set" =>
       \A i \in DOMAIN handleExportJSON.nodes :
         ~(handleExportJSON.nodes[i].isExpanded
           /\ handleExportJSON.nodes[i].content = Loading)
  /\ \A i \in DOMAIN nodes :
       (nodes[i].isExpanded /\ nodes[i].content = Loading) =>
         ActiveToken(nodes[i].id) # NoToken

\* C37: the graph of the initial search.  Whatever the search resolves
\* with, the node list is then the root 'main', expanded with the response
\* as content, then one unexpanded question node per follow-up question of
\* the service, in the order of the service and not custom, then one
\* unexpanded custom question node per question of the pool (the pool the
\* search was started with) that the service did not give, in the order of
\* the pool; the edge list has one edge per child, from 'main' to the
\* child, and no other edge.
C37_InitialSearchGraph ==
  \A call \in searchReq : \A r \in InitialSearchResponses :
    LET st == handleSearchResolved(call, r)
        fq == r.followUpQuestions
        n == Len(fq)
        own == {a \in DOMAIN call.pool : call.pool[a] \notin Range(fq)}
        m == Cardinality(own)
        Pos(q) == CHOOSE a \in own : call.pool[a] = q
    IN /\ Len(st.nodes) = 1 + n + m
       /\ Data(st.nodes[1]) =
            [id |-> MainId, type |-> "mainNode",
             label |-> OrElse(r.contextualQuery, call.query),
             content |-> r.response, isExpanded |-> TRUE, isCustom |-> FALSE]
       /\ \A k \in 2..(1 + n + m) :
            /\ st.nodes[k].type = "default"
            /\ ~st.nodes[k].isExpanded
            /\ st.nodes[k].content = Empty
            /\ st.nodes[k].isCustom = (k > 1 + n)
            /\ \A k2 \in 1..(k - 1) : st.nodes[k2].id # st.nodes[k].id
            /\ Cardinality({j \in DOMAIN st.edges :
                              st.edges[j].target = st.nodes[k].id}) = 1
            /\ \A j \in DOMAIN st.edges :
                 st.edges[j].target = st.nodes[k].id =>
                   st.edges[j].source = MainId
       /\ \A k \in 1..n : st.nodes[1 + k].label = fq[k]
       /\ {st.nodes[k].label : k \in (2 + n)..(1 + n + m)} =
            {call.pool[a] : a \in own}
       /\ \A k \in (2 + n)..(1 + n + m) : \A k2 \in (2 + n)..(k - 1) :
            Pos(st.nodes[k2].label) < Pos(st.nodes[k].label)
       /\ Len(st.edges) = n + m

\* A search has resolved over a pool of three questions, one of which the
\* service gave as well: two children of the service and two custom ones
C37_Witness ==
  /\ searchResult = "set"
  /\ searchReq = {}
  /\ Len(customBranchQuestions) = 3
  /\ Len(nodes) = 5
  /\ ~nodes[2].isCustom
  /\ ~nodes[3].isCustom /\ nodes[3].label \in Range(customBranchQuestions)
  /\ nodes[4].isCustom /\ nodes[5].isCustom

\* C38: the history routes are gated by authentication.  For every request
\* to list, save, delete or rename a session: without a token the answer is
\* 401, with a token that is not signed or has expired it is 403, and in
\* both cases the handler does not run, the answer carries no session and
\* the files are as they were; the handler runs exactly for a token that is
\* signed and has not expired, and its answer is neither 401 nor 403.
C38_HistoryGated ==
  \A req \in HistoryRequests :
    LET res == historyRoute(files, req)
        h == req.authHeader
        hasToken == h.present /\ h.value # <<>>
        verifies == hasToken /\ h.value[1].signed /\ ~h.value[1].expired
    IN /\ ~hasToken => res.status = 401
       /\ (hasToken /\ ~verifies) => res.status = 403
       /\ ~verifies => ~res.ran /\ res.files = files /\ res.body = <<>>
       /\ res.ran <=> verifies
       /\ verifies => res.status \notin {401, 403}

\* The store holds the files of two users, one of them renamed: requests
\* with verified tokens have been served
C38_Witness ==
  /\ Len(files) >= 2
  /\ \E i, j \in DOMAIN files : files[i].savedBy # files[j].savedBy
  /\ \E i \in DOMAIN files : files[i].query = <<"n">>

====
